---- MODULE Spec2Model ----
(***************************************************************************)
(* State-machine model of the dnd-engine server: the in-memory game        *)
(* registry (models/index.js), the resolution engine (controllers: combat, *)
(* spells, items, dialogue, monster) and the socket gateway with its       *)
(* periodic monster-attack timers (sockets/index.js).                      *)
(***************************************************************************)
EXTENDS Integers, Sequences, FiniteSets, TLC

VARIABLES
  games,            \* models/index.js `games`: gameId -> [players, monsters, log]
  monsterIntervals, \* sockets `monsterIntervals`: key <<gameId, instanceId>> -> timer handle
  timers,           \* active (not cleared) setInterval timers: handle -> closure
  nextTimer,        \* handles handed out by setInterval so far
  now,              \* Date.now()
  spawned,          \* history: the monster objects allocated so far, in order
  killed,           \* history: monster objects whose hit points reached <= 0
  last              \* outcome of the last gateway event (result or error)

vars == <<games, monsterIntervals, timers, nextTimer, now, spawned, killed, last>>

(***************************************************************************)
(* Bounds of the model                                                     *)
(***************************************************************************)
MaxLog == 4       \* log lines in the whole registry
MaxClock == 1     \* Date.now() ranges over 0..MaxClock
MaxSpawns == 2    \* monster objects ever allocated
MaxHp == 4        \* healing is explored up to this many hit points
MaxWound == 3     \* damage is explored down to this many hit points below zero

GameIds == {"g1", "g2"}
PlayerIds == {"p1", "p2"}

(***************************************************************************)
(* JavaScript values: a number field is a number, undefined or NaN.        *)
(***************************************************************************)
Num(n) == [k |-> "number", v |-> n]
Undefined == [k |-> "undefined", v |-> 0]
NaN == [k |-> "NaN", v |-> 0]
IsNum(x) == x.k = "number"
\* typeof x === 'number' (true of NaN as well)
TypeofNumber(x) == x.k \in {"number", "NaN"}
\* JS truthiness of a number-or-undefined value
Truthy(x) == IsNum(x) /\ x.v # 0
\* x + n on JS values (x - n is x + (-n)): NaN unless x is a number
JsAdd(x, n) == IF IsNum(x) THEN Num(x.v + n) ELSE NaN
\* x <= 0 (false when x is undefined or NaN)
JsLeq0(x) == IsNum(x) /\ x.v <= 0

Arr(s) == [k |-> "array", v |-> s]
NoArr == [k |-> "undefined", v |-> <<>>]

NoStatus == "undefined"
NoClass == "undefined"

\* name.toLowerCase(), on the names that occur
toLowerCase(name) ==
  CASE name \in {"Magic Missile", "MAGIC MISSILE"} -> "magic missile"
    [] name = "Cure Light Wounds" -> "cure light wounds"
    [] name = "Light" -> "light"
    [] name = "Wish" -> "wish"
    [] name = "Fighter" -> "fighter"
    [] OTHER -> name

(***************************************************************************)
(* Dice notation: a string is a sequence of characters; the regular        *)
(* expression /(\d+)d(\d+)(\+(\d+))?/ is matched as the engine matches it. *)
(***************************************************************************)
Digits == <<"0", "1", "2", "3", "4", "5", "6", "7", "8", "9">>
IsDigit(c) == \E i \in 1..10 : Digits[i] = c

\* end of the maximal run of digits of s that starts at position i (i-1 if none)
RECURSIVE DigitRunEnd(_, _)
DigitRunEnd(s, i) ==
  IF i <= Len(s) /\ IsDigit(s[i]) THEN DigitRunEnd(s, i + 1) ELSE i - 1

\* parseInt(s[i..j], 10) of a run of digits
RECURSIVE parseInt(_, _, _)
parseInt(s, i, j) ==
  IF j < i THEN 0 ELSE parseInt(s, i, j - 1) * 10 + (CHOOSE d \in 1..10 : Digits[d] = s[j]) - 1

\* does (\d+)d(\d+) match at position i
DiceAt(s, i) ==
  LET j == DigitRunEnd(s, i) IN
    /\ j >= i
    /\ j + 2 <= Len(s)
    /\ s[j + 1] = "d"
    /\ IsDigit(s[j + 2])

\* the capture groups of a match at i: count s[i..j], sides s[j+2..e], and the
\* bonus after a "+" at e+1 when the expression has the optional group
Groups(s, i, j, e, withBonus) ==
  [matched |-> TRUE,
   count |-> parseInt(s, i, j),
   sides |-> parseInt(s, j + 2, e),
   bonus |-> IF withBonus /\ e + 2 <= Len(s) /\ s[e + 1] = "+"
                /\ DigitRunEnd(s, e + 2) >= e + 2
             THEN parseInt(s, e + 2, DigitRunEnd(s, e + 2)) ELSE 0]

\* the leftmost position at which (\d+)d(\d+) matches
FirstDice(s) ==
  CHOOSE i \in 1..Len(s) : DiceAt(s, i) /\ \A h \in 1..(i - 1) : ~DiceAt(s, h)

\* notation.match(/(\d+)d(\d+)(\+(\d+))?/): the leftmost match, or no match;
\* withBonus = FALSE is the expression /(\d+)d(\d+)/
matchDice(s, withBonus) ==
  IF \E i \in 1..Len(s) : DiceAt(s, i)
  THEN LET i == FirstDice(s)
           j == DigitRunEnd(s, i)
       IN Groups(s, i, j, DigitRunEnd(s, j + 2), withBonus)
  ELSE [matched |-> FALSE, count |-> 0, sides |-> 0, bonus |-> 0]

RECURSIVE SumSeq(_)
SumSeq(s) == IF s = <<>> THEN 0 ELSE Head(s) + SumSeq(Tail(s))

\* rollDie(sides): Math.floor(Math.random() * sides) + 1
rollDie(sides) == 1..sides

\* the draws the model explores for a die: the lowest, and the highest or, of a
\* d20, one that hits every armour class that occurs
Drawn(sides) == {n \in rollDie(sides) : n = 1 \/ n = (IF sides < 13 THEN sides ELSE 13)}

\* all sequences of n draws of a die
RECURSIVE DrawSeqs(_, _)
DrawSeqs(n, faces) ==
  IF n <= 0 THEN {<<>>}
  ELSE {Append(s, f) : s \in DrawSeqs(n - 1, faces), f \in faces}

(***************************************************************************)
(* Rule tables (rules/*.json, loaded by rules/index.js and read-only at     *)
(* run time).  The tables are data in the documented shape: an orc with    *)
(* armour class 13 and one hit die, a damage spell, a healing spell and an *)
(* inert one, items that heal, add armour class or do nothing.  The dice   *)
(* are small (d2, hit die d4) so that the draws stay few.                  *)
(***************************************************************************)
NoNotation == <<>>

classRules == [fighter |-> [hitDie |-> 4]]

\* a wolf bites with a bonus, a slime has no attack and the notation of the
\* wisp's attack does not parse
monsterRules ==
  [orc |-> [armorClass |-> 13, hitPoints |-> 0, hitDice |-> 1,
            attacks |-> << <<"1", "d", "2">> >>],
   wolf |-> [armorClass |-> 0, hitPoints |-> 3, hitDice |-> 2,
             attacks |-> << <<"2", "d", "2", "+", "1">>, <<"1", "d", "2">> >>],
   slime |-> [armorClass |-> 0, hitPoints |-> 2, hitDice |-> 1, attacks |-> <<>>],
   wisp |-> [armorClass |-> 0, hitPoints |-> 2, hitDice |-> 1,
             attacks |-> << <<"x">> >>]]

\* spells.json, flattened in enumeration order
spellRules ==
  << [name |-> "Magic Missile", heal |-> NoNotation, damage |-> <<"1", "d", "2", "+", "1">>],
     [name |-> "Cure Light Wounds", heal |-> <<"1", "d", "2", "+", "1">>, damage |-> NoNotation],
     [name |-> "Light", heal |-> NoNotation, damage |-> NoNotation] >>

itemRules ==
  [healingPotion |-> [name |-> "Healing Potion", heal |-> <<"1", "d", "2">>, acBonus |-> 0],
   shield |-> [name |-> "Shield", heal |-> NoNotation, acBonus |-> 1],
   rope |-> [name |-> "Rope", heal |-> NoNotation, acBonus |-> 0]]

(***************************************************************************)
(* models/index.js                                                         *)
(***************************************************************************)
EmptyMap == [x \in {} |-> 0]

\* m.set(k, v) and m.delete(k) on a Map
MapSet(m, k, v) == [x \in DOMAIN m \cup {k} |-> IF x = k THEN v ELSE m[x]]
MapDelete(m, k) == [x \in DOMAIN m \ {k} |-> m[x]]

NoCampaign == ""
NewGame == [players |-> EmptyMap, monsters |-> EmptyMap, log |-> <<>>, campaign |-> NoCampaign]

\* a createGame that makes every game that is not there yet
createEvery(R, id) ==
  [g \in DOMAIN R \cup GameIds |-> IF g \in DOMAIN R THEN R[g] ELSE NewGame]

createGame(R, id) == IF id \in DOMAIN R THEN R ELSE MapSet(R, id, NewGame)

NoCharacter == [exists |-> FALSE]
\* the fields of a character object the engine reads or writes
EmptyCharacter ==
  [exists |-> TRUE, hp |-> Undefined, ac |-> Undefined, status |-> NoStatus,
   inventory |-> NoArr, experience |-> Undefined, level |-> Undefined,
   class |-> NoClass]

SetCharacter(R, g, p, c) ==
  [R EXCEPT ![g].players[p].character = c]

\* a join that stores the player whether or not the game has it
PutAlways(R, gameId, playerId, playerName) ==
  [R EXCEPT ![gameId].players =
     MapSet(@, playerId, [name |-> playerName, character |-> NoCharacter])]

\* if (!game.players.has(playerId)) game.players.set(playerId, {...})
PutIfAbsent(R, gameId, playerId, playerName) ==
  IF playerId \notin DOMAIN R[gameId].players
  THEN [R EXCEPT ![gameId].players =
          MapSet(@, playerId, [name |-> playerName, character |-> NoCharacter])]
  ELSE R

addPlayer(R, gameId, playerId, playerName) ==
  PutIfAbsent(createGame(R, gameId), gameId, playerId, playerName)

\* a log that takes a new line at its head
prependLog(R, gameId, message) ==
  [createGame(R, gameId) EXCEPT ![gameId].log = <<message>> \o @]

appendLog(R, gameId, message) ==
  [createGame(R, gameId) EXCEPT ![gameId].log = Append(@, message)]

\* a log line: the kind of message and the values its text is built from
Msg(kind, a, b, n, m) == [kind |-> kind, a |-> a, b |-> b, n |-> n, m |-> m]

\* the number of log lines of the games S
RECURSIVE LogLines(_, _)
LogLines(R, S) ==
  IF S = {} THEN 0
  ELSE Len(R[CHOOSE g \in S : TRUE].log) + LogLines(R, S \ {CHOOSE g \in S : TRUE})

TotalLog(R) == LogLines(R, DOMAIN R)

(***************************************************************************)
(* Results: what an engine call returns or throws                          *)
(***************************************************************************)
NoMsg == Msg("none", "", "", 0, 0)
\* slain: the monster object whose hit points the call brought to <= 0 (0: none)
NoResult ==
  [hit |-> FALSE, damage |-> 0, roll |-> 0, heal |-> 0, remaining |-> Undefined,
   slain |-> 0, node |-> "", end |-> FALSE]
\* a normal return with registry R, result res and message msg
Return(R, res, msg) == [ok |-> TRUE, reg |-> R, res |-> res, msg |-> msg, error |-> ""]
\* throw new Error(e) with the registry as it is at the throw
Throw(R, e) == [ok |-> FALSE, reg |-> R, res |-> NoResult, msg |-> NoMsg, error |-> e]
\* a return that writes no log line
ReturnUnlogged(R, gameId, res, msg) == Return(R, res, msg)
\* models.appendLog(gameId, message); return { message, result }
ReturnLogged(R, gameId, res, msg) == Return(appendLog(R, gameId, msg), res, msg)

(***************************************************************************)
(* models/index.js: characters and monsters                                *)
(***************************************************************************)
\* a character object given by a client: the fields it may carry
Supplied(cls, level, experience) ==
  [EmptyCharacter EXCEPT !.class = cls, !.level = level, !.experience = experience]

\* { ...new }: the new object alone
Replaced(old, new) == [new EXCEPT !.exists = TRUE]

\* { ...old, ...new }: fields present in new win
Spread(old, new) ==
  [exists |-> TRUE,
   hp |-> IF new.hp = Undefined THEN old.hp ELSE new.hp,
   ac |-> IF new.ac = Undefined THEN old.ac ELSE new.ac,
   status |-> IF new.status = NoStatus THEN old.status ELSE new.status,
   inventory |-> IF new.inventory = NoArr THEN old.inventory ELSE new.inventory,
   experience |-> IF new.experience = Undefined THEN old.experience ELSE new.experience,
   level |-> IF new.level = Undefined THEN old.level ELSE new.level,
   class |-> IF new.class = NoClass THEN old.class ELSE new.class]

\* if (x.experience === undefined) x.experience = 0; likewise level = 1
WithDefaults(c) ==
  [c EXCEPT !.experience = IF @ = Undefined THEN Num(0) ELSE @,
            !.level = IF @ = Undefined THEN Num(1) ELSE @]

\* player.character || {}
CharacterOrEmpty(c) == IF c.exists THEN c ELSE EmptyCharacter

setCharacter(R, gameId, playerId, character) ==
  [PutIfAbsent(createGame(R, gameId), gameId, playerId, "Unknown")
     EXCEPT ![gameId].players[playerId].character =
              WithDefaults(Spread(CharacterOrEmpty(@), character))]

\* `m_${Date.now()}_${Math.floor(Math.random() * 1000)}`
InstanceId(clock, suffix) == "m_" \o ToString(clock) \o "_" \o ToString(suffix)

SuffixRange == 1000
\* the random suffixes the model explores
Suffixes == {0, SuffixRange - 1}

\* the monster object of a rule; ref is the identity of the object
NewMonster(instanceId, monsterType, monsterStats, ref) ==
  [instanceId |-> instanceId,
   type |-> monsterType,
   hp |-> IF monsterStats.hitPoints # 0 THEN monsterStats.hitPoints
          ELSE (IF monsterStats.hitDice # 0 THEN monsterStats.hitDice ELSE 1) * 4,
   ac |-> IF monsterStats.armorClass # 0 THEN monsterStats.armorClass ELSE 10,
   status |-> "alive",
   ref |-> ref]

models_spawnMonster(R, gameId, monsterType, monsterStats, instanceId, ref) ==
  [createGame(R, gameId) EXCEPT ![gameId].monsters =
     MapSet(@, instanceId, NewMonster(instanceId, monsterType, monsterStats, ref))]

(***************************************************************************)
(* controllers/monster.js                                                  *)
(***************************************************************************)
spawnMonster(R, gameId, monsterType, instanceId, ref) ==
  IF monsterType \notin DOMAIN monsterRules
  THEN Throw(R, "Unknown monster type")
  ELSE ReturnLogged(models_spawnMonster(R, gameId, monsterType,
                                        monsterRules[monsterType], instanceId, ref),
                    gameId, NoResult, Msg("appears", monsterType, "", 0, 0))

(***************************************************************************)
(* controllers/index.js: joinGame, createCharacter                         *)
(***************************************************************************)
joinGame(R, gameId, playerId, playerName) ==
  ReturnLogged(addPlayer(R, gameId, playerId, playerName), gameId, NoResult,
               Msg("joined", playerName, "", 0, 0))

\* the character object after createCharacter filled in hit points and armour class
Prepared(character, hpRoll) ==
  [character EXCEPT
     !.hp = IF toLowerCase(character.class) \in DOMAIN classRules
               /\ classRules[toLowerCase(character.class)].hitDie # 0
            THEN Num(hpRoll) ELSE @,
     !.ac = IF ~Truthy(@) THEN Num(10) ELSE @]

\* setCharacter, then the log line of the creation with the name of the stored
\* player
Created(R, gameId, playerId, c) ==
  ReturnLogged(setCharacter(R, gameId, playerId, c), gameId, NoResult,
               Msg("created", setCharacter(R, gameId, playerId, c)[gameId].players[playerId].name,
                   c.class, IF Truthy(c.hp) THEN c.hp.v ELSE 0, 0))

createCharacter(R, gameId, playerId, character, hpRoll) ==
  Created(R, gameId, playerId, Prepared(character, hpRoll))

(***************************************************************************)
(* controllers/combat.js                                                   *)
(***************************************************************************)
\* if (!target.character) target.character = { hp: 0 }
CharacterOrZeroHp(c) == IF c.exists THEN c ELSE [EmptyCharacter EXCEPT !.hp = Num(0)]

\* if (typeof target.character.hp !== 'number') target.character.hp = 0
WithNumberHp(c) == IF ~TypeofNumber(c.hp) THEN [c EXCEPT !.hp = Num(0)] ELSE c

\* a hit that leaves the status as it is
NeverMarked(c) == c
\* if (hp <= 0) status = 'unconscious'
Marked(c) == IF JsLeq0(c.hp) THEN [c EXCEPT !.status = "unconscious"] ELSE c

Subtracted(c, damage) == [c EXCEPT !.hp = JsAdd(@, -damage)]

\* the damage part of attack and monsterAttack: the target's character after a hit
Damaged(character, damage) ==
  Marked(Subtracted(WithNumberHp(CharacterOrZeroHp(character)), damage))

Remaining(character) == IF character.exists THEN character.hp ELSE Undefined

\* an armour class that is 10 for every target
AlwaysTen(pl) == 10

\* (target.character && target.character.ac) || 10
AcOrTen(pl) ==
  IF pl.character.exists /\ Truthy(pl.character.ac) THEN pl.character.ac.v ELSE 10

\* (target.character && typeof target.character.ac === 'number') ? ac : 10
NumberAcOrTen(pl) ==
  IF pl.character.exists /\ TypeofNumber(pl.character.ac) THEN pl.character.ac.v ELSE 10

HitResult(roll, damage, remaining, slain) ==
  [NoResult EXCEPT !.hit = TRUE, !.damage = damage, !.roll = roll,
                   !.remaining = remaining, !.slain = slain]
MissResult(roll, remaining) ==
  [NoResult EXCEPT !.roll = roll, !.remaining = remaining]

\* a player attack or monster attack that hit: the target's character becomes after
PlayerHit(R, gameId, targetId, after, roll, damage, msg) ==
  Return(SetCharacter(R, gameId, targetId, after),
         HitResult(roll, damage, Remaining(after), 0), msg)

attack(R, gameId, attackerId, targetId, attackRoll, damageRoll) ==
  IF gameId \notin DOMAIN R THEN Throw(R, "Game does not exist")
  ELSE IF attackerId \notin DOMAIN R[gameId].players
          \/ targetId \notin DOMAIN R[gameId].players
  THEN Throw(R, "Attacker or target not found in this game")
  ELSE IF attackRoll >= AcOrTen(R[gameId].players[targetId])
  THEN PlayerHit(R, gameId, targetId,
                 Damaged(R[gameId].players[targetId].character, damageRoll),
                 attackRoll, damageRoll,
                 Msg("hit", R[gameId].players[attackerId].name,
                     R[gameId].players[targetId].name, damageRoll, attackRoll))
  ELSE Return(R, MissResult(attackRoll, Remaining(R[gameId].players[targetId].character)),
              Msg("missed", R[gameId].players[attackerId].name,
                  R[gameId].players[targetId].name, 0, attackRoll))

\* monster.hp -= damage; if (monster.hp <= 0) game.monsters.delete(id)
\* a hit that takes no hit points
Unharmed(R, gameId, id, damage) == R

Wounded(R, gameId, id, damage) ==
  IF R[gameId].monsters[id].hp - damage <= 0
  THEN [R EXCEPT ![gameId].monsters = MapDelete(@, id)]
  ELSE [R EXCEPT ![gameId].monsters[id].hp = @ - damage]

\* a hit on a monster: result and message are built from the monster as it was
MonsterHit(R, gameId, monster, roll, damage, msg) ==
  Return(Wounded(R, gameId, monster.instanceId, damage),
         HitResult(roll, damage, Num(monster.hp - damage),
                   IF monster.hp - damage <= 0 THEN monster.ref ELSE 0),
         msg)

\* monster.ac || 10
MonsterAc(monster) == IF monster.ac # 0 THEN monster.ac ELSE 10

\* an attack that reports a miss when the monster is not in the game
attackAbsent(R, gameId, attackerId, monsterInstanceId, attackRoll, damageRoll) ==
  IF gameId \notin DOMAIN R THEN Throw(R, "Game does not exist")
  ELSE IF attackerId \notin DOMAIN R[gameId].players
  THEN Throw(R, "Attacker not found in this game")
  ELSE IF monsterInstanceId \notin DOMAIN R[gameId].monsters
  THEN Return(R, MissResult(attackRoll, Undefined),
              Msg("missed the", R[gameId].players[attackerId].name, "", 0, attackRoll))
  ELSE IF attackRoll >= MonsterAc(R[gameId].monsters[monsterInstanceId])
  THEN MonsterHit(R, gameId, R[gameId].monsters[monsterInstanceId], attackRoll, damageRoll,
                  Msg("hit the", R[gameId].players[attackerId].name,
                      R[gameId].monsters[monsterInstanceId].type, damageRoll, attackRoll))
  ELSE Return(R, MissResult(attackRoll, Num(R[gameId].monsters[monsterInstanceId].hp)),
              Msg("missed the", R[gameId].players[attackerId].name,
                  R[gameId].monsters[monsterInstanceId].type, 0, attackRoll))

attackMonster(R, gameId, attackerId, monsterInstanceId, attackRoll, damageRoll) ==
  IF gameId \notin DOMAIN R THEN Throw(R, "Game does not exist")
  ELSE IF attackerId \notin DOMAIN R[gameId].players
  THEN Throw(R, "Attacker not found in this game")
  ELSE IF monsterInstanceId \notin DOMAIN R[gameId].monsters
  THEN Throw(R, "Target monster not found in this game")
  ELSE IF attackRoll >= MonsterAc(R[gameId].monsters[monsterInstanceId])
  THEN MonsterHit(R, gameId, R[gameId].monsters[monsterInstanceId], attackRoll, damageRoll,
                  Msg("hit the", R[gameId].players[attackerId].name,
                      R[gameId].monsters[monsterInstanceId].type, damageRoll, attackRoll))
  ELSE Return(R, MissResult(attackRoll, Num(R[gameId].monsters[monsterInstanceId].hp)),
              Msg("missed the", R[gameId].players[attackerId].name,
                  R[gameId].monsters[monsterInstanceId].type, 0, attackRoll))

\* the notation of the first attack of the monster's rule, "1d6" without one
DamageStr(type) ==
  IF type \in DOMAIN monsterRules /\ Len(monsterRules[type].attacks) > 0
     /\ monsterRules[type].attacks[1] # NoNotation
  THEN monsterRules[type].attacks[1]
  ELSE <<"1", "d", "6">>

\* dice whose bonus is dropped
MonsterDiceOnly(type) ==
  IF matchDice(DamageStr(type), FALSE).matched THEN matchDice(DamageStr(type), FALSE)
  ELSE [matched |-> FALSE, count |-> 1, sides |-> 6, bonus |-> 0]

\* the dice a monster of this type rolls for damage: those of its notation, one
\* d6 when the notation does not parse
MonsterDice(type) ==
  IF matchDice(DamageStr(type), TRUE).matched THEN matchDice(DamageStr(type), TRUE)
  ELSE [matched |-> FALSE, count |-> 1, sides |-> 6, bonus |-> 0]

\* monsterAttack once game, monster and target are found
monsterStrike(R, gameId, monster, targetPlayerId, target, attackRoll, damage) ==
  IF attackRoll >= NumberAcOrTen(target)
  THEN PlayerHit(R, gameId, targetPlayerId, Damaged(target.character, damage),
                 attackRoll, damage,
                 Msg("The hits", monster.type, target.name, damage, attackRoll))
  ELSE Return(R, MissResult(attackRoll, Remaining(target.character)),
              Msg("The misses", monster.type, target.name, 0, attackRoll))

monsterAttack(R, gameId, monsterInstanceId, targetPlayerId, attackRoll, draws) ==
  IF gameId \notin DOMAIN R THEN Throw(R, "Game does not exist")
  ELSE IF monsterInstanceId \notin DOMAIN R[gameId].monsters
  THEN Throw(R, "Monster not found")
  ELSE IF targetPlayerId \notin DOMAIN R[gameId].players
  THEN Throw(R, "Target player not found")
  ELSE monsterStrike(R, gameId, R[gameId].monsters[monsterInstanceId], targetPlayerId,
                     R[gameId].players[targetPlayerId], attackRoll,
                     MonsterDice(R[gameId].monsters[monsterInstanceId].type).bonus
                       + SumSeq(draws))

(***************************************************************************)
(* controllers/spells.js                                                   *)
(***************************************************************************)
\* the least element of a set of numbers, 0 for the empty set
FirstOf(S) == IF S = {} THEN 0 ELSE CHOOSE i \in S : \A h \in S : i <= h

\* index in spellRules of the first spell with this name, 0 if there is none
findSpellByName(name) ==
  FirstOf({i \in 1..Len(spellRules) :
             toLowerCase(spellRules[i].name) = toLowerCase(name)})

\* the dice rollFromNotation rolls for a notation
NotationDice(notation) == matchDice(notation, TRUE)

\* rollFromNotation(notation) when the dice come up as draws; 0 without a match
rollFromNotation(notation, draws) ==
  IF ~NotationDice(notation).matched THEN 0
  ELSE NotationDice(notation).bonus + SumSeq(draws)

\* the sequences of draws a roll of this notation may see
DrawsFor(match) ==
  IF match.matched THEN DrawSeqs(match.count, Drawn(match.sides)) ELSE {<<>>}

\* a healing that wakes the character
HealedAwake(c, healAmount) ==
  [c EXCEPT !.hp = Num((IF Truthy(@) THEN @.v ELSE 0) + healAmount), !.status = NoStatus]

\* a healing of one hit point whatever was rolled
HealedByOne(c, healAmount) ==
  [c EXCEPT !.hp = Num((IF Truthy(@) THEN @.v ELSE 0) + 1)]

\* target.character.hp = (target.character.hp || 0) + healAmount
Healed(c, healAmount) ==
  [c EXCEPT !.hp = Num((IF Truthy(@) THEN @.v ELSE 0) + healAmount)]

\* the healing effect on a player
castHeal(R, gameId, caster, targetId, si, after, healAmount) ==
  ReturnLogged(SetCharacter(R, gameId, targetId, after), gameId,
               [NoResult EXCEPT !.heal = healAmount, !.remaining = after.hp],
               Msg("heals", caster.name, R[gameId].players[targetId].name, healAmount, si))

\* the damage part of castSpell on a player: no check of the type of hp
SpellDamaged(character, damage) ==
  Marked(Subtracted(CharacterOrZeroHp(character), damage))

\* the damage effect on a player
castDamagePlayer(R, gameId, caster, targetId, target, si, attackRoll, damageAmount) ==
  IF attackRoll >= NumberAcOrTen(target)
  THEN ReturnLogged(SetCharacter(R, gameId, targetId,
                                 SpellDamaged(target.character, damageAmount)),
                    gameId,
                    HitResult(attackRoll, damageAmount,
                              Remaining(SpellDamaged(target.character, damageAmount)), 0),
                    Msg("casts and hits", caster.name, target.name, damageAmount, si))
  ELSE ReturnLogged(R, gameId, MissResult(attackRoll, Remaining(target.character)),
                    Msg("casts but misses", caster.name, target.name, 0, si))

\* a damage effect on a monster that logs its hits only
castDamageQuietMiss(R, gameId, caster, monster, si, attackRoll, damageAmount) ==
  IF attackRoll >= MonsterAc(monster)
  THEN ReturnLogged(Wounded(R, gameId, monster.instanceId, damageAmount), gameId,
                    HitResult(attackRoll, damageAmount, Num(monster.hp - damageAmount),
                              IF monster.hp - damageAmount <= 0 THEN monster.ref ELSE 0),
                    Msg("casts and hits", caster.name, monster.type, damageAmount, si))
  ELSE Return(R, MissResult(attackRoll, Num(monster.hp)),
              Msg("casts but misses", caster.name, monster.type, 0, si))

\* the damage effect on a monster
castDamageMonster(R, gameId, caster, monster, si, attackRoll, damageAmount) ==
  IF attackRoll >= MonsterAc(monster)
  THEN ReturnLogged(Wounded(R, gameId, monster.instanceId, damageAmount), gameId,
                    HitResult(attackRoll, damageAmount, Num(monster.hp - damageAmount),
                              IF monster.hp - damageAmount <= 0 THEN monster.ref ELSE 0),
                    Msg("casts and hits", caster.name, monster.type, damageAmount, si))
  ELSE ReturnLogged(R, gameId, MissResult(attackRoll, Num(monster.hp)),
                    Msg("casts but misses", caster.name, monster.type, 0, si))

\* castSpell once spell, game, caster and target are found
castEffect(R, gameId, caster, spell, si, targetType, targetId, attackRoll, draws) ==
  IF spell.heal # NoNotation THEN
    IF targetType # "player"
    THEN Throw(R, "Healing spells can only target players")
    ELSE castHeal(R, gameId, caster, targetId, si,
                  Healed(CharacterOrZeroHp(R[gameId].players[targetId].character),
                         rollFromNotation(spell.heal, draws)),
                  rollFromNotation(spell.heal, draws))
  ELSE IF spell.damage # NoNotation THEN
    IF targetType = "player"
    THEN castDamagePlayer(R, gameId, caster, targetId, R[gameId].players[targetId], si,
                          attackRoll, rollFromNotation(spell.damage, draws))
    ELSE castDamageMonster(R, gameId, caster, R[gameId].monsters[targetId], si,
                           attackRoll, rollFromNotation(spell.damage, draws))
  ELSE ReturnLogged(R, gameId, NoResult,
                    Msg("casts, nothing happens", caster.name, "", 0, si))

castSpell(R, gameId, casterId, spellName, targetType, targetId, attackRoll, draws) ==
  IF findSpellByName(spellName) = 0 THEN Throw(R, "Unknown spell")
  ELSE IF gameId \notin DOMAIN R THEN Throw(R, "Game does not exist")
  ELSE IF casterId \notin DOMAIN R[gameId].players THEN Throw(R, "Caster not found")
  ELSE IF ~(\/ targetType = "player" /\ targetId \in DOMAIN R[gameId].players
            \/ targetType = "monster" /\ targetId \in DOMAIN R[gameId].monsters)
  THEN Throw(R, "Target not found")
  ELSE castEffect(R, gameId, R[gameId].players[casterId],
                  spellRules[findSpellByName(spellName)], findSpellByName(spellName),
                  targetType, targetId, attackRoll, draws)

(***************************************************************************)
(* models/index.js: inventory and experience                               *)
(***************************************************************************)
\* an inventory that takes an item only when it does not have it
AddedOnce(R, gameId, playerId, itemId) ==
  IF playerId \notin DOMAIN R[gameId].players
  THEN [reg |-> R, found |-> FALSE]
  ELSE [reg |-> SetCharacter(R, gameId, playerId,
                  [CharacterOrEmpty(R[gameId].players[playerId].character)
                     EXCEPT !.inventory =
                       IF @.k # "array" THEN Arr(<<itemId>>)
                       ELSE IF \E i \in 1..Len(@.v) : @.v[i] = itemId THEN @
                       ELSE Arr(Append(@.v, itemId))]),
        found |-> TRUE]

\* addItemToPlayer once the game is there: the character and the inventory are
\* created when missing, the item is pushed
AddedTo(R, gameId, playerId, itemId) ==
  IF playerId \notin DOMAIN R[gameId].players
  THEN [reg |-> R, found |-> FALSE]
  ELSE [reg |-> SetCharacter(R, gameId, playerId,
                  [CharacterOrEmpty(R[gameId].players[playerId].character)
                     EXCEPT !.inventory =
                       Arr(Append(IF @.k # "array" THEN <<>> ELSE @.v, itemId))]),
        found |-> TRUE]

\* returns the registry and whether a player was found
addItemToPlayer(R, gameId, playerId, itemId) ==
  AddedTo(createGame(R, gameId), gameId, playerId, itemId)

\* array.lastIndexOf(x), 1-based; 0 when absent
LastIndexOf(s, x) ==
  IF {i \in 1..Len(s) : s[i] = x} = {} THEN 0
  ELSE CHOOSE i \in {h \in 1..Len(s) : s[h] = x} : \A h \in {k \in 1..Len(s) : s[k] = x} : h <= i

\* array.indexOf(x), 1-based; 0 when absent
IndexOf(s, x) == FirstOf({i \in 1..Len(s) : s[i] = x})

\* array.splice(i, 1)
RemoveAt(s, i) == [h \in 1..(Len(s) - 1) |-> IF h < i THEN s[h] ELSE s[h + 1]]

\* returns the registry and whether an item was removed
removeItemFromPlayer(R, gameId, playerId, itemId) ==
  IF gameId \notin DOMAIN R THEN [reg |-> R, removed |-> FALSE]
  ELSE IF playerId \notin DOMAIN R[gameId].players THEN [reg |-> R, removed |-> FALSE]
  ELSE IF ~R[gameId].players[playerId].character.exists
          \/ R[gameId].players[playerId].character.inventory.k # "array"
  THEN [reg |-> R, removed |-> FALSE]
  ELSE IF IndexOf(R[gameId].players[playerId].character.inventory.v, itemId) = 0
  THEN [reg |-> R, removed |-> FALSE]
  ELSE [reg |-> [R EXCEPT ![gameId].players[playerId].character.inventory =
                             Arr(RemoveAt(@.v, IndexOf(@.v, itemId)))],
        removed |-> TRUE]

LevelThreshold == 1000

\* the level-up loop: experience, level and the levels reached, in order
RECURSIVE LevelLoop(_, _, _)
LevelLoop(experience, level, reached) ==
  IF experience >= level * LevelThreshold
  THEN LevelLoop(experience - level * LevelThreshold, level + 1, Append(reached, level + 1))
  ELSE [experience |-> experience, level |-> level, reached |-> reached]

\* a single "if" in place of the "while"
LevelingOnce(experience, level) ==
  IF experience >= level * LevelThreshold
  THEN [experience |-> experience - level * LevelThreshold, level |-> level + 1,
        reached |-> <<level + 1>>]
  ELSE [experience |-> experience, level |-> level, reached |-> <<>>]

\* the loop as addExperience runs it
Leveling(experience, level) == LevelLoop(experience, level, <<>>)

\* experience = (experience || 0) + xp, then the loop; a level that is not a
\* number makes the loop condition false
LoopOf(c, xp) ==
  IF IsNum(c.level)
  THEN Leveling((IF Truthy(c.experience) THEN c.experience.v ELSE 0) + xp, c.level.v)
  ELSE [experience |-> (IF Truthy(c.experience) THEN c.experience.v ELSE 0) + xp,
        level |-> 0, reached |-> <<>>]

RECURSIVE AppendAll(_, _, _)
AppendAll(R, gameId, msgs) ==
  IF msgs = <<>> THEN R
  ELSE AppendAll(appendLog(R, gameId, Head(msgs)), gameId, Tail(msgs))

\* addExperience once the character is found
Experienced(R, gameId, playerId, player, loop) ==
  [reg |-> AppendAll(
              SetCharacter(R, gameId, playerId,
                           [player.character EXCEPT
                              !.experience = Num(loop.experience),
                              !.level = IF IsNum(@) THEN Num(loop.level) ELSE @]),
              gameId,
              [i \in 1..Len(loop.reached) |->
                 Msg("has reached level", player.name, "", loop.reached[i], 0)]),
   found |-> TRUE]

\* returns the registry and whether a character was found
addExperience(R, gameId, playerId, xp) ==
  IF gameId \notin DOMAIN R THEN [reg |-> R, found |-> FALSE]
  ELSE IF playerId \notin DOMAIN R[gameId].players THEN [reg |-> R, found |-> FALSE]
  ELSE IF ~R[gameId].players[playerId].character.exists THEN [reg |-> R, found |-> FALSE]
  ELSE Experienced(R, gameId, playerId, R[gameId].players[playerId],
                   LoopOf(R[gameId].players[playerId].character, xp))

(***************************************************************************)
(* controllers/index.js: giveItem, useItem                                 *)
(***************************************************************************)
\* giveItem after models.addItemToPlayer: player.name of null throws
Obtained(added, gameId, playerId, itemId) ==
  IF ~added.found
  THEN Throw(added.reg, "TypeError: player is null")
  ELSE ReturnLogged(added.reg, gameId, NoResult,
                    Msg("obtained", added.reg[gameId].players[playerId].name,
                        itemRules[itemId].name, 0, 0))

giveItem(R, gameId, playerId, itemId) ==
  IF itemId \notin DOMAIN itemRules THEN Throw(R, "Unknown item")
  ELSE Obtained(addItemToPlayer(R, gameId, playerId, itemId), gameId, playerId, itemId)

\* the dice useItem rolls for a heal notation: /(\d+)d(\d+)/
ItemDice(notation) == matchDice(notation, FALSE)

\* an armour bonus that is set, not added
ArmouredOnce(c, acBonus) == [c EXCEPT !.ac = Num(10 + acBonus)]

\* if (typeof c.ac !== 'number') c.ac = 10; c.ac += acBonus
Armoured(c, acBonus) ==
  [c EXCEPT !.ac = JsAdd(IF TypeofNumber(@) THEN @ ELSE Num(10), acBonus)]

\* let heal = 0; if (match) for (i < count) heal += rollDie(sides): the heal of
\* an item of this notation when the dice come up as draws
healFromNotation(notation, draws) ==
  IF ItemDice(notation).matched THEN SumSeq(draws) ELSE 0

\* the healing effect of an item
itemHeal(R, gameId, playerId, player, item, heal) ==
  ReturnLogged(SetCharacter(R, gameId, playerId, Healed(player.character, heal)), gameId,
               [NoResult EXCEPT !.heal = heal,
                                !.remaining = Healed(player.character, heal).hp],
               Msg("drinks and heals", player.name, item.name, heal, 0))

\* useItem once the item is removed from the inventory
itemEffect(R, gameId, playerId, player, item, draws) ==
  IF item.heal # NoNotation
  THEN itemHeal(R, gameId, playerId, player, item, healFromNotation(item.heal, draws))
  ELSE IF item.acBonus # 0
  THEN ReturnLogged(SetCharacter(R, gameId, playerId,
                                 Armoured(player.character, item.acBonus)),
                    gameId, NoResult,
                    Msg("equips and gains", player.name, item.name, item.acBonus, 0))
  ELSE ReturnLogged(R, gameId, NoResult,
                    Msg("uses, nothing happens", player.name, item.name, 0, 0))

\* a use that refuses an item without a heal and without an armour bonus
UsedOrRefused(taken, gameId, playerId, itemId, draws) ==
  IF ~taken.removed THEN Throw(taken.reg, "Item not in inventory")
  ELSE IF itemRules[itemId].heal = NoNotation /\ itemRules[itemId].acBonus = 0
  THEN Throw(taken.reg, "Item has no effect")
  ELSE itemEffect(taken.reg, gameId, playerId, taken.reg[gameId].players[playerId],
                  itemRules[itemId], draws)

Used(taken, gameId, playerId, itemId, draws) ==
  IF ~taken.removed THEN Throw(taken.reg, "Item not in inventory")
  ELSE itemEffect(taken.reg, gameId, playerId, taken.reg[gameId].players[playerId],
                  itemRules[itemId], draws)

useItem(R, gameId, playerId, itemId, draws) ==
  IF itemId \notin DOMAIN itemRules THEN Throw(R, "Unknown item")
  ELSE Used(removeItemFromPlayer(R, gameId, playerId, itemId), gameId, playerId, itemId,
            draws)

(***************************************************************************)
(* dialogues/index.js and controllers/dialogue.js                          *)
(***************************************************************************)
\* the dialogue files loaded at start (dialogues/*.json); a reward carries xp
\* (0: none) and, when hasItems, an array of items
dialogues ==
  [test |->
    [dialogues |->
      << [id |-> "intro", start |-> "start",
          nodes |->
            [start |->
               [text |-> "A stranger waves.",
                options |->
                  << [text |-> "Help", next |-> "B",
                      reward |-> [present |-> TRUE, xp |-> 2500, hasItems |-> FALSE,
                                  items |-> <<>>]],
                     [text |-> "Take", next |-> "",
                      reward |-> [present |-> TRUE, xp |-> 0, hasItems |-> TRUE,
                                  items |-> <<"healingPotion">>]],
                     [text |-> "Leave", next |-> "nowhere",
                      reward |-> [present |-> FALSE, xp |-> 0, hasItems |-> FALSE,
                                  items |-> <<>>]] >>],
             B |->
               [text |-> "Thank you.",
                options |->
                  << [text |-> "Bye", next |-> "",
                      reward |-> [present |-> TRUE, xp |-> 500, hasItems |-> TRUE,
                                  items |-> <<"rope">>]] >>]]] >>]]

getDialogue(id) == IF id \in DOMAIN dialogues THEN dialogues[id] ELSE [dialogues |-> <<>>]

\* (file.dialogues || []).find((d) => d.id === conversationId): its index, 0 if none
FindConversation(file, conversationId) ==
  FirstOf({i \in 1..Len(file.dialogues) : file.dialogues[i].id = conversationId})

\* the rewarded items of an option, one after the other; thrown: the name of a
\* player that does not exist was read
RECURSIVE GiveRewardItems(_, _, _, _)
ReceivedThen(added, gameId, playerId, items) ==
  IF ~added.found
  THEN [reg |-> added.reg, thrown |-> TRUE]
  ELSE GiveRewardItems(appendLog(added.reg, gameId,
                                 Msg("received item",
                                     added.reg[gameId].players[playerId].name,
                                     Head(items), 0, 0)),
                       gameId, playerId, Tail(items))

GiveRewardItems(R, gameId, playerId, items) ==
  IF items = <<>> THEN [reg |-> R, thrown |-> FALSE]
  ELSE ReceivedThen(addItemToPlayer(R, gameId, playerId, Head(items)), gameId, playerId,
                    items)

\* if (xp) { addExperience(...); appendLog(..., `${getPlayer(...).name} gained ...`) }
XpGiven(R, gameId, playerId, reward) ==
  IF reward.present /\ reward.xp # 0
  THEN appendLog(addExperience(R, gameId, playerId, reward.xp).reg, gameId,
                 Msg("gained XP", R[gameId].players[playerId].name, "", reward.xp, 0))
  ELSE R

\* if (Array.isArray(items)) for (const item of items) ...
ItemsGiven(R, gameId, playerId, reward) ==
  IF reward.present /\ reward.hasItems
  THEN GiveRewardItems(R, gameId, playerId, reward.items)
  ELSE [reg |-> R, thrown |-> FALSE]

\* an option that ends every conversation
AlwaysEnds(conv, option) == TRUE

\* !nextId || !conv.nodes[nextId]
Ends(conv, option) == option.next = "" \/ option.next \notin DOMAIN conv.nodes

\* { end: true }, or { nodeId: nextId, text: next.text, options: the texts of
\* next.options }
Answered(given, conv, option) ==
  IF given.thrown
  THEN Throw(given.reg, "TypeError: player is null")
  ELSE IF Ends(conv, option)
  THEN Return(given.reg,
              [text |-> "", options |-> <<>>] @@ [NoResult EXCEPT !.end = TRUE], NoMsg)
  ELSE Return(given.reg,
              [text |-> conv.nodes[option.next].text,
               options |-> [i \in 1..Len(conv.nodes[option.next].options) |->
                              conv.nodes[option.next].options[i].text]]
                @@ [NoResult EXCEPT !.node = option.next],
              NoMsg)

startDialogue(R, gameId, playerId, dialogueId, conversationId) ==
  IF dialogueId \notin DOMAIN dialogues THEN Throw(R, "Dialogue file not found")
  ELSE IF FindConversation(getDialogue(dialogueId), conversationId) = 0
  THEN Throw(R, "Dialogue not found in file")
  ELSE LET conv == getDialogue(dialogueId).dialogues[
                     FindConversation(getDialogue(dialogueId), conversationId)]
       IN IF conv.start \notin DOMAIN conv.nodes
          THEN Throw(R, "Start node not found in dialogue")
          ELSE Return(R,
                      [text |-> conv.nodes[conv.start].text,
                       options |-> [i \in 1..Len(conv.nodes[conv.start].options) |->
                                      conv.nodes[conv.start].options[i].text]]
                        @@ [NoResult EXCEPT !.node = conv.start],
                      NoMsg)

\* the rewards and the answer of a chosen option
Chosen(R, gameId, playerId, conv, option) ==
  \* getPlayer(gameId, playerId).name of a player that does not exist
  IF /\ option.reward.present /\ option.reward.xp # 0
     /\ ~(gameId \in DOMAIN R /\ playerId \in DOMAIN R[gameId].players)
  THEN Throw(R, "TypeError: player is null")
  ELSE Answered(ItemsGiven(XpGiven(R, gameId, playerId, option.reward),
                           gameId, playerId, option.reward),
                conv, option)

\* a choice that gives the experience of the node's first option before it
\* looks at the index
RewardedFirst(R, gameId, playerId, conv, nodeId, optionIndex) ==
  IF nodeId \notin DOMAIN conv.nodes THEN Throw(R, "Node not found in dialogue")
  ELSE IF optionIndex < 0 \/ optionIndex >= Len(conv.nodes[nodeId].options)
  THEN Throw(IF gameId \in DOMAIN R /\ playerId \in DOMAIN R[gameId].players
             THEN XpGiven(R, gameId, playerId, conv.nodes[nodeId].options[1].reward)
             ELSE R,
             "Option index is invalid")
  ELSE Chosen(R, gameId, playerId, conv, conv.nodes[nodeId].options[optionIndex + 1])

InConversation(R, gameId, playerId, conv, nodeId, optionIndex) ==
  IF nodeId \notin DOMAIN conv.nodes THEN Throw(R, "Node not found in dialogue")
  ELSE IF optionIndex < 0 \/ optionIndex >= Len(conv.nodes[nodeId].options)
  THEN Throw(R, "Option index is invalid")
  ELSE Chosen(R, gameId, playerId, conv, conv.nodes[nodeId].options[optionIndex + 1])

chooseDialogueOption(R, gameId, playerId, dialogueId, conversationId, nodeId, optionIndex) ==
  IF dialogueId \notin DOMAIN dialogues THEN Throw(R, "Dialogue file not found")
  ELSE IF FindConversation(getDialogue(dialogueId), conversationId) = 0
  THEN Throw(R, "Dialogue not found in file")
  ELSE InConversation(R, gameId, playerId,
                      getDialogue(dialogueId).dialogues[
                        FindConversation(getDialogue(dialogueId), conversationId)],
                      nodeId, optionIndex)

(***************************************************************************)
(* controllers/index.js: handleAction                                      *)
(***************************************************************************)
\* an action payload: the fields handleAction reads
ActionOf(type, targetType, targetId, spellName) ==
  [type |-> type, sides |-> 20, targetType |-> targetType, targetId |-> targetId,
   spellName |-> spellName, spellId |-> ""]

\* the dice of one call: the d20, the d6 and the draws of a notation
Dice(d20, d6, draws) == [d20 |-> d20, d6 |-> d6, draws |-> draws]

\* a combat call whose line is returned and not appended
Unlogged(out, gameId) == out

\* models.appendLog(gameId, msg) after a combat call that returned
Logged(out, gameId) ==
  IF out.ok THEN ReturnLogged(out.reg, gameId, out.res, out.msg) ELSE out

handleAction(R, gameId, playerId, action, dice) ==
  IF gameId \notin DOMAIN R THEN Throw(R, "Game does not exist")
  ELSE IF playerId \notin DOMAIN R[gameId].players THEN Throw(R, "Player is not in game")
  ELSE IF action.type = "roll"
  THEN ReturnLogged(R, gameId, [NoResult EXCEPT !.roll = dice.d20],
                    Msg("rolled", R[gameId].players[playerId].name, "", dice.d20,
                        action.sides))
  ELSE IF action.type = "attack" /\ action.targetType = "monster"
  THEN Logged(attackMonster(R, gameId, playerId, action.targetId, dice.d20, dice.d6),
              gameId)
  ELSE IF action.type = "attack"
  THEN Logged(attack(R, gameId, playerId, action.targetId, dice.d20, dice.d6), gameId)
  \* const name = spellName || action.spellId; if (!name) ...
  ELSE IF action.type = "castSpell" /\ action.spellName = "" /\ action.spellId = ""
  THEN ReturnLogged(R, gameId, NoResult,
                    Msg("tried to cast", R[gameId].players[playerId].name, "", 0, 0))
  ELSE IF action.type = "castSpell"
  THEN castSpell(R, gameId, playerId,
                 IF action.spellName # "" THEN action.spellName ELSE action.spellId,
                 action.targetType, action.targetId, dice.d20, dice.draws)
  ELSE ReturnLogged(R, gameId, NoResult,
                    Msg("unknown action", R[gameId].players[playerId].name, action.type,
                        0, 0))

\* getGameState(gameId) is not null
getGameState(R, gameId) == gameId \in DOMAIN R

(***************************************************************************)
(* The gateway (sockets/index.js) and the state machine                    *)
(***************************************************************************)
\* what the gateway answers: the result of a call that returned (with the names
\* the call was made with; arg is its numeric argument: the timer that fired,
\* the option chosen, the experience awarded), the error message alone of a
\* call that threw
Outcome(op, g, who, target, note, out) ==
  IF out.ok
  THEN [op |-> op, game |-> g, who |-> who, target |-> target, note |-> note, arg |-> 0,
        ok |-> TRUE, res |-> out.res, msg |-> out.msg, error |-> ""]
  ELSE [op |-> op, game |-> "", who |-> "", target |-> "", note |-> "", arg |-> 0,
        ok |-> FALSE, res |-> NoResult, msg |-> NoMsg, error |-> out.error]

\* an event sent to the originating socket (socket.emit) or to the room of a
\* game (io.to(gameId).emit); a gameState event carries the snapshot
Emit(event, to, room, state) == [event |-> event, to |-> to, room |-> room, state |-> state]
\* an event without a snapshot, and the snapshot of a game that is not there
NoState == [id |-> "none"]
NullState == [id |-> "null"]

\* a handler that sends nothing to the room when its call returned
OutcomeUnshared(op, g, who, target, note, out) ==
  [emits |-> IF out.ok THEN <<>> ELSE <<Emit("error", "socket", "", NoState)>>]
    @@ Outcome(op, g, who, target, note, out)

\* the handler of a client command: try { call; [own events;]
\* io.to(gameId).emit('gameState', getGameState(gameId)) } catch (err)
\* { socket.emit('error', err.message) }, with the events each handler sends
\* besides the snapshot, which is { id, players, monsters, log } or null
Answer(op, g, who, target, note, out) ==
  LET state == IF g \in DOMAIN out.reg
               THEN [id |-> g, players |-> out.reg[g].players,
                     monsters |-> out.reg[g].monsters, log |-> out.reg[g].log]
               ELSE NullState
      gameState == <<Emit("gameState", "room", g, state)>>
  IN [emits |->
        IF ~out.ok THEN <<Emit("error", "socket", "", NoState)>>
        ELSE CASE op \in {"joinGame", "createCharacter", "giveItem"} -> gameState
               [] op = "useItem" -> <<Emit("itemUsed", "socket", "", NoState)>> \o gameState
               [] op = "selectCampaign" ->
                    <<Emit("campaignSelected", "room", g, NoState)>> \o gameState
               [] op = "spawnMonster" ->
                    gameState \o <<Emit("monsterSpawned", "room", g, NoState)>>
               [] op = "chooseDialogueOption" ->
                    gameState \o <<Emit(IF out.res.end THEN "dialogueEnd" ELSE "dialogueNode",
                                        "socket", "", NoState)>>
               [] OTHER -> <<Emit("actionResult", "socket", "", NoState)>> \o gameState]
       @@ Outcome(op, g, who, target, note, out)

MaxInventory == 2
MaxAc == 12
MaxLevel == 4

\* the part of the state space that is explored
WithinBounds(R) ==
  /\ TotalLog(R) <= MaxLog
  /\ \A g \in DOMAIN R : \A p \in DOMAIN R[g].players :
       LET c == R[g].players[p].character IN
         c.exists =>
           /\ IsNum(c.hp) => (c.hp.v >= -MaxWound /\ c.hp.v <= MaxHp)
           /\ IsNum(c.ac) => c.ac.v <= MaxAc
           /\ IsNum(c.level) => c.level.v <= MaxLevel
           /\ Len(c.inventory.v) <= MaxInventory

Init ==
  /\ games = EmptyMap
  /\ monsterIntervals = EmptyMap
  /\ timers = EmptyMap
  /\ nextTimer = 0
  /\ now = 0
  /\ spawned = <<>>
  /\ killed = {}
  /\ last = Outcome("init", "", "", "", "", Return(EmptyMap, NoResult, NoMsg))

\* socket.on('joinGame')
JoinGame(g, p, n) ==
  /\ \E out \in {joinGame(games, g, p, n)} :
       /\ WithinBounds(out.reg)
       /\ games' = out.reg
       /\ last' = Answer("joinGame", g, p, "", n, out)
  /\ UNCHANGED <<monsterIntervals, timers, nextTimer, now, spawned, killed>>

\* the hit points a new character of this class may roll
HpRolls(class) ==
  IF toLowerCase(class) \in DOMAIN classRules
  THEN Drawn(classRules[toLowerCase(class)].hitDie) ELSE {1}

\* socket.on('createCharacter')
CreateCharacter(g, p, character) ==
  /\ \E hpRoll \in HpRolls(character.class) :
       \E out \in {createCharacter(games, g, p, character, hpRoll)} :
         /\ WithinBounds(out.reg)
         /\ games' = out.reg
         /\ last' = Answer("createCharacter", g, p, "", character.class, out)
  /\ UNCHANGED <<monsterIntervals, timers, nextTimer, now, spawned, killed>>

\* the draws a castSpell action may see: those of the spell's notation
SpellDraws(spellName) ==
  IF findSpellByName(spellName) = 0 THEN {<<>>}
  ELSE IF spellRules[findSpellByName(spellName)].heal # NoNotation
  THEN DrawsFor(NotationDice(spellRules[findSpellByName(spellName)].heal))
  ELSE IF spellRules[findSpellByName(spellName)].damage # NoNotation
  THEN DrawsFor(NotationDice(spellRules[findSpellByName(spellName)].damage))
  ELSE {<<>>}

\* the dice an action may roll
DiceFor(action) ==
  CASE action.type = "roll" -> {Dice(n, 1, <<>>) : n \in Drawn(action.sides)}
    [] action.type = "attack" -> {Dice(n, d, <<>>) : n \in Drawn(20), d \in Drawn(6)}
    [] action.type = "castSpell" ->
         {Dice(n, 1, draws) : n \in Drawn(20), draws \in SpellDraws(action.spellName)}
    [] OTHER -> {Dice(1, 1, <<>>)}

\* socket.on('action')
Action(g, p, action) ==
  /\ \E dice \in DiceFor(action) :
       \E out \in {handleAction(games, g, p, action, dice)} :
         \* a call that throws reads no dice
         /\ ~out.ok => dice = CHOOSE d \in DiceFor(action) : TRUE
         /\ WithinBounds(out.reg)
         /\ games' = out.reg
         /\ killed' = killed \cup (IF out.res.slain # 0 THEN {out.res.slain} ELSE {})
         /\ last' = Answer(action.type, g, p, action.targetId, action.targetType, out)
  /\ UNCHANGED <<monsterIntervals, timers, nextTimer, now, spawned>>

\* socket.on('giveItem')
GiveItem(g, p, itemId) ==
  /\ \E out \in {giveItem(games, g, p, itemId)} :
       /\ WithinBounds(out.reg)
       /\ games' = out.reg
       /\ last' = Answer("giveItem", g, p, "", itemId, out)
  /\ UNCHANGED <<monsterIntervals, timers, nextTimer, now, spawned, killed>>

\* the draws a use of this item may see
ItemDraws(itemId) ==
  IF itemId \in DOMAIN itemRules
  THEN DrawsFor(ItemDice(itemRules[itemId].heal)) ELSE {<<>>}

\* socket.on('useItem')
UseItem(g, p, itemId) ==
  /\ \E draws \in ItemDraws(itemId) :
       \E out \in {useItem(games, g, p, itemId, draws)} :
         /\ ~out.ok => draws = CHOOSE d \in ItemDraws(itemId) : TRUE
         /\ WithinBounds(out.reg)
         /\ games' = out.reg
         /\ last' = Answer("useItem", g, p, "", itemId, out)
  /\ UNCHANGED <<monsterIntervals, timers, nextTimer, now, spawned, killed>>

\* socket.on('chooseDialogueOption')
ChooseDialogueOption(g, p, dialogueId, conversationId, nodeId, optionIndex) ==
  /\ \E out \in {chooseDialogueOption(games, g, p, dialogueId, conversationId,
                                      nodeId, optionIndex)} :
       /\ WithinBounds(out.reg)
       /\ games' = out.reg
       /\ last' = [Answer("chooseDialogueOption", g, p, nodeId, dialogueId, out)
                     EXCEPT !.arg = optionIndex]
  /\ UNCHANGED <<monsterIntervals, timers, nextTimer, now, spawned, killed>>

\* `${gameId}_${monster.instanceId}`
Key(gameId, instanceId) == gameId \o "_" \o instanceId

\* a timer that clearInterval leaves running
LeftRunning(T, I, key) == T
\* clearInterval(monsterIntervals[key]); delete monsterIntervals[key]
ClearedTimers(T, I, key) == IF key \in DOMAIN I THEN MapDelete(T, I[key]) ELSE T

\* a spawn that starts its task without looking for an earlier one
NotReplaced(T, I, key) == T
\* the spawn handler's treatment of an interval already registered under key:
\* the timers that remain active before the new one is started
ReplacedTimers(T, I, key) == ClearedTimers(T, I, key)

\* the spawn handler after the controller returned or threw
Spawned(g, monsterType, instanceId, out) ==
  /\ WithinBounds(out.reg)
  /\ games' = out.reg
  /\ last' = Answer("spawnMonster", g, "", instanceId, monsterType, out)
  /\ IF out.ok
     THEN /\ Len(spawned) < MaxSpawns
          /\ spawned' = Append(spawned, [game |-> g, instanceId |-> instanceId])
          /\ timers' = MapSet(ReplacedTimers(timers, monsterIntervals, Key(g, instanceId)),
                              nextTimer + 1,
                              [gameId |-> g, instanceId |-> instanceId,
                               key |-> Key(g, instanceId)])
          /\ monsterIntervals' = MapSet(monsterIntervals, Key(g, instanceId), nextTimer + 1)
          /\ nextTimer' = nextTimer + 1
     ELSE UNCHANGED <<spawned, timers, monsterIntervals, nextTimer>>
  /\ UNCHANGED <<now, killed>>

\* socket.on('spawnMonster')
SpawnMonster(g, monsterType, suffix) ==
  \E out \in {spawnMonster(games, g, monsterType, InstanceId(now, suffix),
                           Len(spawned) + 1)} :
    Spawned(g, monsterType, InstanceId(now, suffix), out)

\* a monster AI that takes its target among all the players of the game
everyPlayer(R, gameId) == DOMAIN R[gameId].players

\* the players the monster AI may choose as its target:
\* p.character && (hp === undefined || hp > 0) && (!status || status !== 'unconscious')
availablePlayers(R, gameId) ==
  {p \in DOMAIN R[gameId].players :
     LET c == R[gameId].players[p].character IN
       /\ c.exists
       /\ (c.hp = Undefined \/ (IsNum(c.hp) /\ c.hp.v > 0))
       /\ c.status # "unconscious"}

\* what a firing of timer h reports
TickNote(h, t, note, target, out) ==
  [Outcome("monsterAI", t.gameId, t.instanceId, target, note, out) EXCEPT !.arg = h]

\* the interval callback of timer h with closure t
Callback(h, t) ==
  IF ~getGameState(games, t.gameId) \/ t.instanceId \notin DOMAIN games[t.gameId].monsters
  THEN /\ timers' = ClearedTimers(timers, monsterIntervals, t.key)
       /\ monsterIntervals' = MapDelete(monsterIntervals, t.key)
       /\ last' = TickNote(h, t, "cancelled", "", Return(games, NoResult, NoMsg))
       /\ UNCHANGED games
  ELSE IF availablePlayers(games, t.gameId) = {}
  \* if (availablePlayers.length === 0) return;
  THEN /\ last' = TickNote(h, t, "noTarget", "", Return(games, NoResult, NoMsg))
       /\ UNCHANGED <<timers, monsterIntervals, games>>
  ELSE \E target \in availablePlayers(games, t.gameId), d20 \in Drawn(20),
          draws \in DrawSeqs(MonsterDice(games[t.gameId].monsters[t.instanceId].type).count,
                             Drawn(MonsterDice(games[t.gameId].monsters[t.instanceId].type).sides)) :
         \E out \in {Logged(monsterAttack(games, t.gameId, t.instanceId, target, d20,
                                          draws), t.gameId)} :
           IF out.ok
           THEN /\ WithinBounds(out.reg)
                /\ games' = out.reg
                /\ last' = TickNote(h, t, "attacked", target, out)
                /\ UNCHANGED <<timers, monsterIntervals>>
           \* catch (err): the task ends
           ELSE /\ timers' = ClearedTimers(timers, monsterIntervals, t.key)
                /\ monsterIntervals' = MapDelete(monsterIntervals, t.key)
                /\ last' = TickNote(h, t, "error", "", out)
                /\ UNCHANGED games

\* one firing of timer h
Tick(h) ==
  /\ h \in DOMAIN timers
  /\ Callback(h, timers[h])
  /\ UNCHANGED <<nextTimer, now, spawned, killed>>

\* time passes between two events
ClockAdvance ==
  /\ now < MaxClock
  /\ now' = now + 1
  /\ UNCHANGED <<games, monsterIntervals, timers, nextTimer, spawned, killed, last>>

(***************************************************************************)
(* Spec: the monster life cycle, from the empty registry                   *)
(***************************************************************************)
\* the monsters a client names: those spawned so far, dead or alive, and one
\* identifier that was never given out
MonsterIds == {spawned[i].instanceId : i \in 1..Len(spawned)} \cup {"m_0_1"}

Next ==
  \/ JoinGame("g1", "p1", "Rowan")
  \/ CreateCharacter("g1", "p1", Supplied("fighter", Undefined, Undefined))
  \/ \E type \in {"orc", "yeti"}, suffix \in Suffixes : SpawnMonster("g1", type, suffix)
  \/ \E m \in MonsterIds : Action("g1", "p1", ActionOf("attack", "monster", m, ""))
  \/ \E m \in MonsterIds :
        Action("g1", "p1", ActionOf("castSpell", "monster", m, "Magic Missile"))
  \/ \E h \in 1..MaxSpawns : Tick(h)
  \/ ClockAdvance

Spec == Init /\ [][Next]_vars

(***************************************************************************)
(* FairSpec: one player hunting orcs while the timers fire again and again *)
(* (setInterval, every 15 seconds)                                         *)
(***************************************************************************)
NextHunt ==
  \/ JoinGame("g1", "p1", "Rowan")
  \/ CreateCharacter("g1", "p1", Supplied("fighter", Undefined, Undefined))
  \/ SpawnMonster("g1", "orc", 0)
  \/ \E m \in MonsterIds : Action("g1", "p1", ActionOf("attack", "monster", m, ""))
  \/ \E h \in 1..MaxSpawns : Tick(h)
  \/ ClockAdvance

\* the monster of timer h is no longer in its game
Gone(h) ==
  \/ timers[h].gameId \notin DOMAIN games
  \/ timers[h].instanceId \notin DOMAIN games[timers[h].gameId].monsters

\* the firing of timer h that finds its monster gone
TickGone(h) == h \in DOMAIN timers /\ Gone(h) /\ Tick(h)

\* a timer that stays active fires; the firings that find the monster in its
\* game need no fairness here
FairSpec == Init /\ [][NextHunt]_vars /\ \A h \in 1..MaxSpawns : WF_vars(TickGone(h))

(***************************************************************************)
(* Properties of the monster life cycle                                    *)
(***************************************************************************)
\* the monster objects that are in a game's mapping
LiveRefs(R) ==
  UNION {{R[g].monsters[m].ref : m \in DOMAIN R[g].monsters} : g \in DOMAIN R}

\* C1: a spawned monster object is absent from its game's mapping if and only if
\* its hit points have reached <= 0 since it was spawned, and every monster in
\* a mapping has hit points > 0 and status "alive"
C1_MonsterRemoval ==
  /\ \A r \in 1..Len(spawned) : (r \notin LiveRefs(games)) <=> (r \in killed)
  /\ \A g \in DOMAIN games : \A m \in DOMAIN games[g].monsters :
       games[g].monsters[m].hp > 0 /\ games[g].monsters[m].status = "alive"

\* C2: a tick at which no player is eligible cancels the task: its timer is
\* cleared and its entry is removed from the task table
C2_NoTargetCancels ==
  (last.op = "monsterAI" /\ last.note = "noTarget")
    => /\ last.arg \notin DOMAIN timers
       /\ Key(last.game, last.who) \notin DOMAIN monsterIntervals

\* C3: under fair ticks the task of a monster that was removed from its game is
\* eventually cancelled, and the tick that finds the monster gone clears the
\* timer, deletes the entry of the task table and attacks nobody
C3_GoneCancelled ==
  /\ \A h \in 1..MaxSpawns :
       (h \in DOMAIN timers /\ Gone(h)) ~> (h \notin DOMAIN timers)
  /\ [][\A h \in 1..MaxSpawns :
          (h \in DOMAIN timers /\ Gone(h) /\ Tick(h))
            => /\ h \notin DOMAIN timers'
               /\ timers[h].key \notin DOMAIN monsterIntervals'
               /\ games' = games]_vars

\* a tick found its monster killed and cancelled the task
C3_Witness ==
  /\ last.op = "monsterAI" /\ last.note = "cancelled"
  /\ killed # {}
  /\ last.arg \notin DOMAIN timers
  /\ Key(last.game, last.who) \notin DOMAIN monsterIntervals

\* C4: the identifiers of the monsters spawned in the process are pairwise
\* different, and every monster object that was not killed is still in the
\* mapping of its game (no spawn overwrote it)
C4_UniqueIds ==
  /\ \A i, j \in 1..Len(spawned) :
       i # j => spawned[i].instanceId # spawned[j].instanceId
  /\ \A r \in 1..Len(spawned) : r \notin killed => r \in LiveRefs(games)

\* C10: every active timer is the one registered under its key in the task
\* table, so a key has at most one active timer, and a timer that was cleared
\* is never active again
C10_OneTaskPerKey ==
  /\ [](\A h \in DOMAIN timers :
          /\ timers[h].key \in DOMAIN monsterIntervals
          /\ monsterIntervals[timers[h].key] = h)
  /\ [][\A h \in 1..nextTimer : h \notin DOMAIN timers => h \notin DOMAIN timers']_vars

\* a second spawn under the key of a running task replaced that task
C10_Witness ==
  /\ Len(spawned) = 2
  /\ spawned[1] = spawned[2]
  /\ DOMAIN timers = {2}
  /\ monsterIntervals[Key(spawned[2].game, spawned[2].instanceId)] = 2

(***************************************************************************)
(* SpecLobby: one client joining, equipping and talking, from the empty    *)
(* registry; the calls name games, items, targets and monster types that   *)
(* exist and that do not                                                   *)
(***************************************************************************)
NextLobby ==
  \/ \E n \in {"Rowan", "Mira"} : JoinGame("g1", "p1", n)
  \/ \E class \in {"fighter", "bard"} : CreateCharacter("g1", "p1", Supplied(class, Undefined, Undefined))
  \/ \E g \in GameIds, itemId \in {"healingPotion", "orb"} : GiveItem(g, "p1", itemId)
  \/ UseItem("g1", "p1", "healingPotion")
  \/ \E g \in GameIds, optionIndex \in 1..3 :
        ChooseDialogueOption(g, "p1", "test", "intro", "start", optionIndex)
  \/ \E targetType \in {"player", "monster"} :
        Action("g1", "p1", ActionOf("attack", targetType, "p2", ""))
  \/ Action("g1", "p1", ActionOf("castSpell", "player", "p1", "Wish"))
  \/ SpawnMonster("g1", "yeti", 0)

SpecLobby == Init /\ [][NextLobby]_vars

\* C5: a call that fails with an error leaves the registry as it was: the same
\* games, players, characters, monsters and logs
C5_NoPartialMutation == [][~last'.ok => games' = games]_vars

\* C9: a join of a player the game already has leaves the game's players as
\* they were: the name of the first join, one entry, the same character
C9_IdempotentJoin ==
  [][\A g \in GameIds, p \in PlayerIds :
       (/\ last'.op = "joinGame" /\ last'.game = g /\ last'.who = p
        /\ g \in DOMAIN games
        /\ p \in DOMAIN games[g].players)
         => games'[g].players = games[g].players]_vars

\* a player with a character joined again under another name
C9_Witness ==
  /\ last.op = "joinGame"
  /\ last.game \in DOMAIN games
  /\ last.who \in DOMAIN games[last.game].players
  /\ games[last.game].players[last.who].name # last.note
  /\ games[last.game].players[last.who].character.exists

(***************************************************************************)
(* SpecCombat: a player and a monster of any type against a second player,  *)
(* from the empty registry                                                 *)
(***************************************************************************)
NextCombat ==
  \/ \E p \in PlayerIds : JoinGame("g1", p, IF p = "p1" THEN "Rowan" ELSE "Mira")
  \/ \E class \in {"fighter", "bard"} :
        CreateCharacter("g1", "p2", Supplied(class, Undefined, Undefined))
  \/ Action("g1", "p1", ActionOf("attack", "player", "p2", ""))
  \/ \E spellName \in {"Magic Missile", "Cure Light Wounds"} :
        Action("g1", "p1", ActionOf("castSpell", "player", "p2", spellName))
  \/ \E monsterType \in DOMAIN monsterRules : SpawnMonster("g1", monsterType, 0)
  \/ \E h \in 1..MaxSpawns : Tick(h)

SpecCombat == Init /\ [][NextCombat]_vars

\* the character of player p of game g in registry R; none if there is no such player
CharacterAt(R, g, p) ==
  IF g \in DOMAIN R /\ p \in DOMAIN R[g].players THEN R[g].players[p].character
  ELSE NoCharacter

Unconscious(c) == c.exists /\ c.status = "unconscious"
Down(c) == c.exists /\ JsLeq0(c.hp)

HpOrZero(c) == IF c.exists /\ IsNum(c.hp) THEN c.hp.v ELSE 0

\* the step is an attack, a monster attack or a damage spell on a player
OnPlayer(o) ==
  /\ o.ok
  /\ o.msg.kind \in {"hit", "missed", "The hits", "The misses",
                     "casts and hits", "casts but misses"}
  /\ o.op \in {"attack", "castSpell"} => o.note = "player"

\* C7: a reported hit leaves the target's hit points at the hit points before
\* minus the reported damage, strictly lower than before; a reported miss
\* reports damage 0 and leaves the target's character as it was
C7_HitLowersHp ==
  [][OnPlayer(last') =>
       IF last'.res.hit
       THEN /\ IsNum(CharacterAt(games', last'.game, last'.target).hp)
            /\ CharacterAt(games', last'.game, last'.target).hp.v =
                 HpOrZero(CharacterAt(games, last'.game, last'.target)) - last'.res.damage
            /\ CharacterAt(games', last'.game, last'.target).hp.v <
                 HpOrZero(CharacterAt(games, last'.game, last'.target))
       ELSE /\ last'.res.damage = 0
            /\ CharacterAt(games', last'.game, last'.target) =
                 CharacterAt(games, last'.game, last'.target)]_vars

(***************************************************************************)
(* SpecXp: experience awarded to a character of level L with experience E, *)
(* drawn so that 0 <= E < L * 1000                                         *)
(***************************************************************************)
\* the experience a character of this level starts with
StartExperience(level) == {0, 500, level * LevelThreshold - 1}
\* the experience awarded in one call: nothing, less than a level, exactly a
\* level, and rewards that cross one and two thresholds of level 1
Awards == {0, 500, 1000, 2500, 3000}

\* the registry after a player joined and created a character that carries
\* level and experience
InitXp ==
  /\ \E level \in 1..(MaxLevel - 1) : \E experience \in StartExperience(level) :
       games = createCharacter(joinGame(EmptyMap, "g1", "p1", "Rowan").reg, "g1", "p1",
                               Supplied("fighter", Num(level), Num(experience)), 1).reg
  /\ monsterIntervals = EmptyMap
  /\ timers = EmptyMap
  /\ nextTimer = 0
  /\ now = 0
  /\ spawned = <<>>
  /\ killed = {}
  /\ last = Outcome("init", "", "", "", "", Return(EmptyMap, NoResult, NoMsg))

\* models.addExperience(gameId, playerId, xp)
AddExperience(g, p, xp) ==
  /\ \E out \in {addExperience(games, g, p, xp)} :
       /\ WithinBounds(out.reg)
       /\ games' = out.reg
       /\ last' = [Outcome("addExperience", g, p, "", "", Return(out.reg, NoResult, NoMsg))
                     EXCEPT !.arg = xp]
  /\ UNCHANGED <<monsterIntervals, timers, nextTimer, now, spawned, killed>>

NextXp ==
  \/ \E xp \in Awards : AddExperience("g1", "p1", xp)
  \/ ChooseDialogueOption("g1", "p1", "test", "intro", "B", 0)

SpecXp == InitXp /\ [][NextXp]_vars

\* the sum of k * 1000 for k from a to b - 1
RECURSIVE Thresholds(_, _)
Thresholds(a, b) == IF a >= b THEN 0 ELSE a * LevelThreshold + Thresholds(a + 1, b)

\* the lines from position n + 1 on are the level-ups to the levels from + 1 .. to
LevelUps(log, n, from, to) ==
  /\ Len(log) = n + (to - from)
  /\ \A i \in 1..(to - from) :
       log[n + i].kind = "has reached level" /\ log[n + i].n = from + i

\* what C8 says of a call that finds level L and experience E, is given X and
\* leaves level L2 and experience E2, the log growing from log to log2
LevelingLaw(L, E, X, L2, E2, log, log2) ==
  (L >= 1 /\ 0 <= E /\ E < L * LevelThreshold /\ X >= 0)
    => /\ L2 >= L
       /\ 0 <= E2 /\ E2 < L2 * LevelThreshold
       /\ E + X = E2 + Thresholds(L, L2)
       /\ LevelUps(log2, Len(log), L, L2)
       /\ SubSeq(log2, 1, Len(log)) = log

\* C8: addExperience on level L >= 1 and experience 0 <= E < L * 1000 with
\* X >= 0 leaves L' >= L and 0 <= E' < L' * 1000 with E + X = E' + the sum of
\* k * 1000 for k from L to L' - 1, and appends exactly L' - L level-up lines
C8_LevelingLoop ==
  [][last'.op = "addExperience" =>
       LevelingLaw(games["g1"].players["p1"].character.level.v,
                   games["g1"].players["p1"].character.experience.v,
                   last'.arg,
                   games'["g1"].players["p1"].character.level.v,
                   games'["g1"].players["p1"].character.experience.v,
                   games["g1"].log, games'["g1"].log)]_vars

\* level 1 with experience 0 was given 2500: level 2, experience 1500, one
\* level-up line after the lines of join and creation
C8_Witness ==
  /\ last.op = "addExperience" /\ last.arg = 2500
  /\ games["g1"].players["p1"].character.level = Num(2)
  /\ games["g1"].players["p1"].character.experience = Num(1500)
  /\ Len(games["g1"].log) = 3
  /\ games["g1"].log[3].kind = "has reached level"

(***************************************************************************)
(* Properties of the log                                                   *)
(***************************************************************************)
\* the log of game g in registry R; empty if there is no such game
LogOf(R, g) == IF g \in DOMAIN R THEN R[g].log ELSE <<>>

\* C11: in every step (player actions and monster AI ticks interleaved) every
\* game keeps its log as a prefix of the log after the step, and the line of
\* the operation that completed is the last line of its game's log, directly
\* after the lines that were there before
C11_LogAppendOnly ==
  [][/\ \A g \in GameIds :
          /\ g \in DOMAIN games => g \in DOMAIN games'
          /\ Len(LogOf(games', g)) >= Len(LogOf(games, g))
          /\ SubSeq(LogOf(games', g), 1, Len(LogOf(games, g))) = LogOf(games, g)
     /\ (last'.ok /\ last'.msg # NoMsg)
          => LogOf(games', last'.game) = Append(LogOf(games, last'.game), last'.msg)]_vars

\* a client's operation was logged directly after the line of a monster's
\* attack, which came after the lines of earlier operations
C11_Witness ==
  /\ last.ok /\ last.op = "joinGame"
  /\ Len(LogOf(games, last.game)) >= 3
  /\ LogOf(games, last.game)[Len(LogOf(games, last.game))] = last.msg
  /\ LogOf(games, last.game)[Len(LogOf(games, last.game)) - 1].kind
       \in {"The hits", "The misses"}

(***************************************************************************)
(* SpecGames: a client and monsters in two games                           *)
(***************************************************************************)
\* the events that name game g: the calls of a client and the firings of the
\* timers of g's monsters
Events(g) ==
  \/ JoinGame(g, "p1", "Rowan")
  \/ CreateCharacter(g, "p1", Supplied("fighter", Undefined, Undefined))
  \/ GiveItem(g, "p1", "healingPotion")
  \/ UseItem(g, "p1", "healingPotion")
  \/ ChooseDialogueOption(g, "p1", "test", "intro", "start", 1)
  \/ SpawnMonster(g, "orc", 0)
  \/ \E m \in MonsterIds : Action(g, "p1", ActionOf("attack", "monster", m, ""))
  \/ Action(g, "p1", ActionOf("attack", "player", "p1", ""))
  \/ Action(g, "p1", ActionOf("castSpell", "player", "p1", "Magic Missile"))
  \/ \E h \in 1..MaxSpawns : h \in DOMAIN timers /\ timers[h].gameId = g /\ Tick(h)

\* every event on g1, while in g2 a client joins and creates a character and
\* a monster is spawned and attacks
SpecGames ==
  Init /\ [][\/ Events("g1")
            \/ JoinGame("g2", "p1", "Rowan")
            \/ CreateCharacter("g2", "p1", Supplied("fighter", Undefined, Undefined))
            \/ SpawnMonster("g2", "orc", 0)
            \/ \E h \in 1..MaxSpawns :
                  h \in DOMAIN timers /\ timers[h].gameId = "g2" /\ Tick(h)]_vars

\* C12: an event that names game g, whether it succeeds or fails, leaves every
\* other game as it was: there or not there, with the same players,
\* characters, monsters and log
C12_GameIsolation ==
  [][\A g \in GameIds :
       Events(g) =>
         \A h \in GameIds \ {g} :
           /\ h \in DOMAIN games' <=> h \in DOMAIN games
           /\ h \in DOMAIN games => games'[h] = games[h]]_vars

\* a monster of g1 attacked a player of g1 while g2 has a player
C12_Witness ==
  /\ last.ok /\ last.op = "monsterAI" /\ last.note = "attacked" /\ last.game = "g1"
  /\ "g2" \in DOMAIN games
  /\ games["g2"].players # EmptyMap

(***************************************************************************)
(* SpecSheet: one character that a client created with an inventory and,   *)
(* possibly, a status in its payload, then items, healing, rewards and     *)
(* blows                                                                   *)
(***************************************************************************)
MaxCarried == 3

\* all sequences of at most n of the items
RECURSIVE Carried(_, _)
Carried(n, items) ==
  IF n = 0 THEN {<<>>}
  ELSE Carried(n - 1, items)
         \cup {Append(s, x) : s \in {t \in Carried(n - 1, items) : Len(t) = n - 1}, x \in items}

\* the registry after createCharacter with such a payload
InitSheet ==
  /\ \E inv \in Carried(MaxCarried, {"healingPotion", "shield"}),
        status \in {NoStatus, "unconscious"} :
       games = createCharacter(EmptyMap, "g1", "p1",
                               [Supplied("fighter", Undefined, Undefined)
                                  EXCEPT !.inventory = Arr(inv), !.status = status],
                               1).reg
  /\ monsterIntervals = EmptyMap
  /\ timers = EmptyMap
  /\ nextTimer = 0
  /\ now = 0
  /\ spawned = <<>>
  /\ killed = {}
  /\ last = Outcome("init", "", "", "", "", Return(EmptyMap, NoResult, NoMsg))

SpecSheet ==
  InitSheet
    /\ [][\/ \E itemId \in {"healingPotion", "shield", "rope", "orb"} :
               UseItem("g1", "p1", itemId)
          \/ \E itemId \in {"rope", "orb"} : GiveItem("g1", "p1", itemId)
          \/ Action("g1", "p1", ActionOf("castSpell", "player", "p1", "Cure Light Wounds"))
          \/ Action("g1", "p1", ActionOf("attack", "player", "p1", ""))
          \/ ChooseDialogueOption("g1", "p1", "test", "intro", "B", 0)
          \/ AddExperience("g1", "p1", LevelThreshold)]_vars

\* the inventory of player p of game g in registry R
InventoryAt(R, g, p) == CharacterAt(R, g, p).inventory.v

\* t is s without the first occurrence of x
WithoutFirst(s, x, t) ==
  \E i \in 1..Len(s) :
    /\ s[i] = x
    /\ \A h \in 1..(i - 1) : s[h] # x
    /\ t = SubSeq(s, 1, i - 1) \o SubSeq(s, i + 1, Len(s))

\* C13: a useItem of an item that is in the inventory succeeds and leaves the
\* inventory without the first occurrence of the item, every other entry in
\* its place; a useItem of an item that is not in the inventory fails and
\* leaves the registry as it was
C13_UseConsumes ==
  [][\A itemId \in {"healingPotion", "shield", "rope", "orb"} :
       UseItem("g1", "p1", itemId) =>
         IF \E i \in 1..Len(InventoryAt(games, "g1", "p1")) :
              InventoryAt(games, "g1", "p1")[i] = itemId
         THEN /\ last'.ok
              /\ WithoutFirst(InventoryAt(games, "g1", "p1"), itemId,
                              InventoryAt(games', "g1", "p1"))
         ELSE ~last'.ok /\ games' = games]_vars

\* a potion was used from an inventory that held a second potion behind a shield
C13_Witness ==
  /\ last.ok /\ last.op = "useItem" /\ last.note = "healingPotion"
  /\ InventoryAt(games, "g1", "p1") = <<"shield", "healingPotion">>
  /\ Len(LogOf(games, "g1")) = 2

(***************************************************************************)
(* Properties of calls that name a game or a player the registry lacks     *)
(***************************************************************************)
\* C14: a createCharacter, giveItem or addExperience succeeds only for a game
\* and a player that the registry had before the call, and whether it
\* succeeds or fails it creates no game and no player
C14_UnknownFails ==
  [][last'.op \in {"createCharacter", "giveItem", "addExperience"} =>
       /\ last'.ok => /\ last'.game \in DOMAIN games
                      /\ last'.who \in DOMAIN games[last'.game].players
       /\ DOMAIN games' = DOMAIN games
       /\ \A g \in DOMAIN games : DOMAIN games'[g].players = DOMAIN games[g].players]_vars

(***************************************************************************)
(* Properties of the status                                                *)
(***************************************************************************)
\* C15: a character whose status is "unconscious" keeps that status through
\* every useItem, giveItem, healing spell, experience award, dialogue reward
\* and blow, also when healing raises its hit points above 0
C15_StatusNeverCleared ==
  [][\A g \in GameIds, p \in PlayerIds :
       Unconscious(CharacterAt(games, g, p)) => Unconscious(CharacterAt(games', g, p))]_vars

\* a character that a blow had brought down was healed above 0 and is still
\* unconscious
C15_Witness ==
  /\ last.ok /\ last.op \in {"castSpell", "useItem"} /\ last.res.heal > 0
  /\ \E i \in 1..Len(LogOf(games, "g1")) : LogOf(games, "g1")[i].kind = "hit"
  /\ Unconscious(CharacterAt(games, "g1", "p1"))
  /\ IsNum(CharacterAt(games, "g1", "p1").hp)
  /\ CharacterAt(games, "g1", "p1").hp.v > 0
  /\ CharacterAt(games, "g1", "p1").hp.v - last.res.heal <= 0

(***************************************************************************)
(* SpecRolls: attack and attackMonster called with every value of the d20  *)
(* on targets of several armour classes                                    *)
(***************************************************************************)
\* combat.attack / combat.attackMonster called directly
Strike(g, attackerId, targetType, targetId) ==
  /\ \E attackRoll \in rollDie(20), damageRoll \in Drawn(6) :
       \E out \in {IF targetType = "monster"
                    THEN attackMonster(games, g, attackerId, targetId, attackRoll, damageRoll)
                    ELSE attack(games, g, attackerId, targetId, attackRoll, damageRoll)} :
         \* a call that throws reads no dice
         /\ ~out.ok => (attackRoll = 1 /\ damageRoll = 1)
         /\ WithinBounds(out.reg)
         /\ games' = out.reg
         /\ killed' = killed \cup (IF out.res.slain # 0 THEN {out.res.slain} ELSE {})
         /\ last' = Outcome(IF targetType = "monster" THEN "attackMonster" ELSE "attack",
                            g, attackerId, targetId, targetType, out)
  /\ UNCHANGED <<monsterIntervals, timers, nextTimer, now, spawned>>

\* the registry after Rowan joined and the target either joined without a
\* character or created one with an armour class in its payload
InitRolls ==
  /\ \/ games = joinGame(joinGame(EmptyMap, "g1", "p1", "Rowan").reg, "g1", "p2", "Mira").reg
     \/ \E ac \in {Undefined, Num(1), Num(MaxAc)} :
          games = createCharacter(joinGame(EmptyMap, "g1", "p1", "Rowan").reg, "g1", "p2",
                                  [Supplied("fighter", Undefined, Undefined) EXCEPT !.ac = ac],
                                  MaxHp).reg
  /\ monsterIntervals = EmptyMap
  /\ timers = EmptyMap
  /\ nextTimer = 0
  /\ now = 0
  /\ spawned = <<>>
  /\ killed = {}
  /\ last = Outcome("init", "", "", "", "", Return(EmptyMap, NoResult, NoMsg))

SpecRolls ==
  InitRolls
    /\ [][\/ SpawnMonster("g1", "orc", 0)
          \/ Strike("g1", "p1", "player", "p2")
          \/ \E m \in MonsterIds : Strike("g1", "p1", "monster", m)]_vars

\* the armour class a blow is rolled against: that of the character, 10 when
\* the player has no character or the character has none
ArmourClass(c) == IF c.exists /\ IsNum(c.ac) THEN c.ac.v ELSE 10

\* a blow with roll r against armour class A: hit iff r >= A, damage in 1..6
\* when hit and 0 otherwise
RollHitLaw(res, A) ==
  /\ res.roll \in 1..20
  /\ res.hit <=> res.roll >= A
  /\ IF res.hit THEN res.damage \in 1..6 ELSE res.damage = 0

\* C16: attack reports a hit iff the d20 is at least the armour class of the
\* target's character (10 without a character), with damage in 1..6 when hit
\* and 0 otherwise; attackMonster does so against the monster's armour class
C16_RollHitLaw ==
  [][/\ (last'.ok /\ last'.op = "attack")
          => RollHitLaw(last'.res, ArmourClass(CharacterAt(games, last'.game, last'.target)))
     /\ (last'.ok /\ last'.op = "attackMonster")
          => RollHitLaw(last'.res, games[last'.game].monsters[last'.target].ac)]_vars

\* a roll of exactly the armour class hit a character of armour class 12
C16_Witness ==
  /\ last.ok /\ last.op = "attack" /\ last.res.hit
  /\ last.res.roll = MaxAc
  /\ CharacterAt(games, last.game, last.target).ac = Num(MaxAc)

(***************************************************************************)
(* SpecTalk: a client that joins, starts conversations and chooses options *)
(* at every node, with files, conversations, nodes and indices that exist  *)
(* and that do not                                                         *)
(***************************************************************************)
\* socket.on('startDialogue')
StartDialogue(g, p, dialogueId, conversationId) ==
  /\ \E out \in {startDialogue(games, g, p, dialogueId, conversationId)} :
       /\ games' = out.reg
       /\ last' = Outcome("startDialogue", g, p, conversationId, dialogueId, out)
  /\ UNCHANGED <<monsterIntervals, timers, nextTimer, now, spawned, killed>>

SpecTalk ==
  Init
    /\ [][\/ JoinGame("g1", "p1", "Rowan")
          \/ \E dialogueId \in {"test", "none"}, conversationId \in {"intro", "outro"} :
               StartDialogue("g1", "p1", dialogueId, conversationId)
          \/ \E dialogueId \in {"test", "none"}, conversationId \in {"intro", "outro"},
                nodeId \in {"start", "B", "nowhere"}, optionIndex \in -1..3 :
               ChooseDialogueOption("g1", "p1", dialogueId, conversationId, nodeId,
                                    optionIndex)]_vars

\* the conversation "intro" of the file "test"
Intro == dialogues["test"].dialogues[1]

\* res is the payload of node nodeId of conv: its id, its text and the texts
\* of its options in order
IsNode(res, conv, nodeId) ==
  /\ ~res.end
  /\ res.node = nodeId
  /\ res.text = conv.nodes[nodeId].text
  /\ Len(res.options) = Len(conv.nodes[nodeId].options)
  /\ \A i \in 1..Len(res.options) : res.options[i] = conv.nodes[nodeId].options[i].text

\* C17: startDialogue on a known file and conversation returns the start node
\* with its text and the texts of its options in order; for a player of the
\* game, chooseDialogueOption with a valid index returns the node that the
\* option's next names when the conversation has it, and the end of the
\* conversation, without a node, when the option has no next or a next that
\* names no node
C17_DialogueTraversal ==
  [][/\ StartDialogue("g1", "p1", "test", "intro")
          => (last'.ok /\ IsNode(last'.res, Intro, Intro.start))
     /\ \A nodeId \in DOMAIN Intro.nodes :
          \A optionIndex \in 0..(Len(Intro.nodes[nodeId].options) - 1) :
            (/\ ChooseDialogueOption("g1", "p1", "test", "intro", nodeId, optionIndex)
             /\ "g1" \in DOMAIN games
             /\ "p1" \in DOMAIN games["g1"].players)
              => /\ last'.ok
                 /\ IF Intro.nodes[nodeId].options[optionIndex + 1].next \in DOMAIN Intro.nodes
                    THEN IsNode(last'.res, Intro,
                                Intro.nodes[nodeId].options[optionIndex + 1].next)
                    ELSE /\ last'.res.end
                         /\ last'.res.node = ""
                         /\ last'.res.text = ""
                         /\ last'.res.options = <<>>]_vars

\* the first option of the start node led to node B
C17_Witness ==
  /\ last.ok /\ last.op = "chooseDialogueOption"
  /\ last.target = "start" /\ last.arg = 0
  /\ last.res.node = "B"
  /\ last.res.options = <<"Bye">>

(***************************************************************************)
(* models/index.js: exportCharacter.  A returned object is a value and the *)
(* parts of the live character it is the same object as: a write by the    *)
(* holder of the returned object to a shared part is a write to the live   *)
(* character                                                               *)
(***************************************************************************)
Parts == {"fields", "inventory"}

\* return player.character: the live object itself
exportLive(R, gameId, playerId) ==
  IF gameId \notin DOMAIN R THEN [nil |-> TRUE, value |-> NoCharacter, shares |-> {}]
  ELSE IF playerId \notin DOMAIN R[gameId].players
  THEN [nil |-> TRUE, value |-> NoCharacter, shares |-> {}]
  ELSE IF ~R[gameId].players[playerId].character.exists
  THEN [nil |-> TRUE, value |-> NoCharacter, shares |-> {}]
  ELSE [nil |-> FALSE, value |-> R[gameId].players[playerId].character, shares |-> Parts]

\* JSON.parse(JSON.stringify(player.character)): every object and array of the
\* result is new, a NaN is written as null, an undefined field is left out
exportCharacter(R, gameId, playerId) ==
  IF gameId \notin DOMAIN R THEN [nil |-> TRUE, value |-> NoCharacter, shares |-> {}]
  ELSE IF playerId \notin DOMAIN R[gameId].players
  THEN [nil |-> TRUE, value |-> NoCharacter, shares |-> {}]
  ELSE IF ~R[gameId].players[playerId].character.exists
  THEN [nil |-> TRUE, value |-> NoCharacter, shares |-> {}]
  ELSE LET json(x) == IF x = NaN THEN [k |-> "null", v |-> 0] ELSE x
       IN [nil |-> FALSE,
           value |-> [R[gameId].players[playerId].character EXCEPT
                        !.hp = json(@), !.ac = json(@),
                        !.experience = json(@), !.level = json(@)],
           shares |-> {}]

\* socket.on('exportCharacter'): 'Character not found' when the call returns
\* null, else the character is sent to the client
ExportCharacter(g, p) ==
  /\ \E char \in {exportCharacter(games, g, p)} :
       last' = Outcome("exportCharacter", g, p, "", "",
                       IF char.nil
                       THEN Throw(games, "Character not found")
                       ELSE Return(games,
                                   [export |-> char.value, shares |-> char.shares]
                                     @@ NoResult,
                                   NoMsg))
  /\ UNCHANGED <<games, monsterIntervals, timers, nextTimer, now, spawned, killed>>

\* a write to one part of a character object
Mutated(c, part) ==
  IF part = "fields"
  THEN [c EXCEPT !.hp = Num(0), !.status = "edited"]
  ELSE [c EXCEPT !.inventory = Arr(Append(@.v, "orb"))]

\* the holder of the object that exportCharacter returned writes to it
MutateExport(part) ==
  /\ last.ok /\ last.op \in {"exportCharacter", "mutateExport"}
  /\ Len(last.res.export.inventory.v) <= MaxInventory
  /\ last' = [last EXCEPT !.op = "mutateExport", !.note = part,
                          !.res.export = Mutated(@, part)]
  /\ games' = IF part \in last.res.shares
              THEN SetCharacter(games, last.game, last.who,
                                Mutated(CharacterAt(games, last.game, last.who), part))
              ELSE games
  /\ UNCHANGED <<monsterIntervals, timers, nextTimer, now, spawned, killed>>

SpecExport ==
  Init
    /\ [][\/ JoinGame("g1", "p1", "Rowan")
          \/ CreateCharacter("g1", "p1", Supplied("fighter", Undefined, Undefined))
          \/ GiveItem("g1", "p1", "healingPotion")
          \/ \E g \in GameIds, p \in {"p1", "p2"} : ExportCharacter(g, p)
          \/ \E part \in Parts : MutateExport(part)]_vars

MaxNotation == 5
MaxDice == 2

RECURSIVE Strings(_, _)
Strings(n, alphabet) ==
  IF n = 0 THEN {<<>>}
  ELSE Strings(n - 1, alphabet)
         \cup {Append(s, ch) : s \in {t \in Strings(n - 1, alphabet) : Len(t) = n - 1},
                               ch \in alphabet}

\* notations, well formed and malformed, of at most MaxDice dice
Notations ==
  {s \in Strings(MaxNotation, {"1", "2", "d", "+", "x"}) : ItemDice(s).count <= MaxDice}

\* a notation is drawn
InitDice ==
  /\ games = EmptyMap
  /\ monsterIntervals = EmptyMap
  /\ timers = EmptyMap
  /\ nextTimer = 0
  /\ now = 0
  /\ spawned = <<>>
  /\ killed = {}
  /\ \E notation \in Notations :
       last = Outcome("notation", "", "", "", "",
                      Return(EmptyMap, [notation |-> notation] @@ NoResult, NoMsg))

\* both readers roll the dice of the notation
RollNotation(draws) ==
  /\ last.op = "notation"
  /\ last' = [last EXCEPT !.op = "rollNotation",
                          !.res = [draws |-> draws,
                                   item |-> healFromNotation(last.res.notation, draws),
                                   spell |-> rollFromNotation(last.res.notation, draws)]
                                    @@ last.res]
  /\ UNCHANGED <<games, monsterIntervals, timers, nextTimer, now, spawned, killed>>

SpecDice ==
  InitDice
    /\ [][\E draws \in DrawsFor(NotationDice(last.res.notation)) :
           RollNotation(draws)]_vars

\* C19: for the same notation and the same draws an item heals what a spell
\* of that notation produces: the bonus plus the sum of the draws for a
\* notation NdS or NdS+B, and 0 for a notation without dice
C19_SharedNotation ==
  last.op = "rollNotation"
    => /\ last.res.item = last.res.spell
       /\ last.res.spell = NotationDice(last.res.notation).bonus + SumSeq(last.res.draws)

\* C20: an attack on a player who has no character returns no remaining hit
\* points, whether the roll hits or misses
C20_NoCharacterNoRemaining ==
  [][(/\ last'.ok /\ last'.op = "attack"
      /\ ~CharacterAt(games, last'.game, last'.target).exists)
       => last'.res.remaining = Undefined]_vars

(***************************************************************************)
(* SpecCast: Rowan in a game with Mira, who joined or created a character, *)
(* sends actions of every kind: spells with a heal, a damage or no effect, *)
(* on players and monsters that are there and that are not, and actions of *)
(* kinds that handleAction does not know; Rowan is given ropes and uses    *)
(* them                                                                    *)
(***************************************************************************)
SpecCast ==
  /\ \/ games = joinGame(joinGame(EmptyMap, "g1", "p1", "Rowan").reg, "g1", "p2", "Mira").reg
     \/ \E class \in {"fighter", "bard"} :
          games = createCharacter(joinGame(EmptyMap, "g1", "p1", "Rowan").reg, "g1", "p2",
                                  Supplied(class, Undefined, Undefined), 1).reg
  /\ monsterIntervals = EmptyMap
  /\ timers = EmptyMap
  /\ nextTimer = 0
  /\ now = 0
  /\ spawned = <<>>
  /\ killed = {}
  /\ last = Outcome("init", "", "", "", "", Return(EmptyMap, NoResult, NoMsg))
  /\ [][\/ SpawnMonster("g1", "orc", 0)
        \/ \E spellName \in {"Magic Missile", "Cure Light Wounds", "Light", "Wish"},
              targetType \in {"player", "monster"},
              targetId \in {"p1", "p2", "p3"} \cup MonsterIds :
             Action("g1", "p1", ActionOf("castSpell", targetType, targetId, spellName))
        \/ \E type \in {"dance", "move"}, targetType \in {"player", "monster"},
              targetId \in {"p2", "p3"} \cup MonsterIds :
             Action("g1", "p1", ActionOf(type, targetType, targetId, ""))
        \/ GiveItem("g1", "p1", "rope")
        \/ UseItem("g1", "p1", "rope")]_vars

\* C21: an action of a kind that handleAction does not know, sent by a player
\* of an existing game, returns a message without an error, appends the
\* "unknown action" line, and that line alone, to the game's log, and leaves
\* the players, their characters and the monsters as they were
C21_UnknownActionSucceeds ==
  [][last'.op \in {"dance", "move"}
       => /\ last'.ok
          /\ last'.msg.kind = "unknown action"
          /\ LogOf(games', "g1") = Append(LogOf(games, "g1"), last'.msg)
          /\ games'["g1"].players = games["g1"].players
          /\ games'["g1"].monsters = games["g1"].monsters
          /\ DOMAIN games' = DOMAIN games]_vars

\* an unknown action was answered while the game had a monster and a
\* character
C21_Witness ==
  /\ last.ok /\ last.op = "dance" /\ last.msg.kind = "unknown action"
  /\ games["g1"].monsters # EmptyMap
  /\ CharacterAt(games, "g1", "p2").exists

\* C22: a castSpell that returns (a heal, a damage spell that hits or misses,
\* a spell without effect) appends one line to the game's log, the message it
\* returns, which is then the last line of the log; a castSpell that fails
\* leaves the log as it was
C22_CastLogsOnce ==
  [][last'.op = "castSpell"
       => IF last'.ok
          THEN /\ last'.msg.kind \in {"heals", "casts and hits", "casts but misses",
                                      "casts, nothing happens"}
               /\ LogOf(games', "g1") = Append(LogOf(games, "g1"), last'.msg)
          ELSE LogOf(games', "g1") = LogOf(games, "g1")]_vars

\* a damage spell missed a monster and its line is the last of the log
C22_Witness ==
  /\ last.ok /\ last.op = "castSpell" /\ last.note = "monster"
  /\ last.msg.kind = "casts but misses"
  /\ Len(LogOf(games, "g1")) >= 4
  /\ LogOf(games, "g1")[Len(LogOf(games, "g1"))] = last.msg

\* C23: a heal spell cast at a monster of the game fails and leaves the
\* registry (the monster, every player, the log) as it was; cast at a player
\* of the game it succeeds, the target's hit points are the hit points before
\* (0 when the target had none) plus the heal rolled, and every other
\* character and every monster stays as it was
C23_HealPlayersOnly ==
  [][/\ \A m \in DOMAIN games["g1"].monsters :
          Action("g1", "p1", ActionOf("castSpell", "monster", m, "Cure Light Wounds"))
            => (~last'.ok /\ games' = games)
     /\ \A t \in DOMAIN games["g1"].players :
          Action("g1", "p1", ActionOf("castSpell", "player", t, "Cure Light Wounds"))
            => /\ last'.ok
               /\ last'.res.heal \in 2..3
               /\ CharacterAt(games', "g1", t).hp
                    = Num(HpOrZero(CharacterAt(games, "g1", t)) + last'.res.heal)
               /\ \A p \in DOMAIN games["g1"].players \ {t} :
                    CharacterAt(games', "g1", p) = CharacterAt(games, "g1", p)
               /\ games'["g1"].monsters = games["g1"].monsters]_vars

\* Mira, at 1 hit point, was healed by 3 while a monster was in the game
C23_Witness ==
  /\ last.ok /\ last.op = "castSpell" /\ last.target = "p2" /\ last.res.heal = 3
  /\ CharacterAt(games, "g1", "p2").hp = Num(4)
  /\ games["g1"].monsters # EmptyMap

\* the monsters of game g in registry R; none if there is no such game
MonstersOf(R, g) == IF g \in DOMAIN R THEN R[g].monsters ELSE EmptyMap

\* C24: a spawnMonster of a type without a rule fails and leaves the registry
\* as it was (no monster, no log line, no game); a spawnMonster of a type with
\* a rule adds one monster to the game, every monster that was there staying
\* as it was, the new one "alive" with the hit points of the rule (hitDice x 4
\* when the rule has none) and its armour class (10 when the rule has none),
\* and appends the line of its appearance to the log
C24_SpawnValidates ==
  [][last'.op = "spawnMonster"
       => IF ~last'.ok
          THEN games' = games
          ELSE /\ last'.note \in DOMAIN monsterRules
               /\ DOMAIN MonstersOf(games', last'.game)
                    = DOMAIN MonstersOf(games, last'.game) \cup {last'.target}
               /\ Cardinality(DOMAIN MonstersOf(games', last'.game))
                    = Cardinality(DOMAIN MonstersOf(games, last'.game)) + 1
               /\ \A m \in DOMAIN MonstersOf(games, last'.game) :
                    games'[last'.game].monsters[m] = games[last'.game].monsters[m]
               /\ games'[last'.game].monsters[last'.target].status = "alive"
               /\ games'[last'.game].monsters[last'.target].hp
                    = (IF monsterRules[last'.note].hitPoints # 0
                       THEN monsterRules[last'.note].hitPoints
                       ELSE monsterRules[last'.note].hitDice * 4)
               /\ games'[last'.game].monsters[last'.target].ac
                    = (IF monsterRules[last'.note].armorClass # 0
                       THEN monsterRules[last'.note].armorClass ELSE 10)
               /\ last'.msg.kind = "appears"
               /\ LogOf(games', last'.game) = Append(LogOf(games, last'.game), last'.msg)]_vars

\* C25: a useItem of a heal item leaves the hit points at the hit points
\* before (0 when there were none) plus the amount rolled, whatever the hit
\* points were, and the armour class as it was; a useItem of an item with an
\* armour bonus b leaves the armour class at the armour class before plus b
\* and the hit points as they were, so that k uses add k * b
C25_ItemEffectsExact ==
  [][(last'.ok /\ last'.op = "useItem")
       => LET before == CharacterAt(games, last'.game, last'.who)
              after == CharacterAt(games', last'.game, last'.who)
              item == itemRules[last'.note]
          IN /\ item.heal # NoNotation
                  => /\ last'.res.heal \in 1..2
                     /\ after.hp = Num(HpOrZero(before) + last'.res.heal)
                     /\ after.ac = before.ac
             /\ (item.heal = NoNotation /\ item.acBonus # 0)
                  => /\ after.ac = Num(ArmourClass(before) + item.acBonus)
                     /\ after.hp = before.hp]_vars

\* the second shield was used: two lines of armour gained and an armour class
\* of 10 + 2 * 1
C25_Witness ==
  /\ last.ok /\ last.op = "useItem" /\ last.note = "shield"
  /\ Len(LogOf(games, "g1")) = 3
  /\ LogOf(games, "g1")[2].kind = "equips and gains"
  /\ LogOf(games, "g1")[3].kind = "equips and gains"
  /\ CharacterAt(games, "g1", "p1").ac = Num(10 + 2 * itemRules["shield"].acBonus)

\* C26: a useItem of an item in the inventory whose rule has no heal and no
\* armour bonus, and a castSpell of a spell without heal and without damage
\* at a player or monster of the game, return without an error and append
\* one line, "nothing happens", to the log; no character changes but for the
\* used item, which leaves the inventory, and no monster changes
C26_InertSucceeds ==
  [][/\ (/\ CharacterAt(games, "g1", "p1").exists
         /\ IndexOf(InventoryAt(games, "g1", "p1"), "rope") # 0
         /\ UseItem("g1", "p1", "rope"))
          => /\ last'.ok
             /\ last'.msg.kind = "uses, nothing happens"
             /\ LogOf(games', "g1") = Append(LogOf(games, "g1"), last'.msg)
             /\ WithoutFirst(InventoryAt(games, "g1", "p1"), "rope",
                             InventoryAt(games', "g1", "p1"))
             /\ CharacterAt(games', "g1", "p1")
                  = [CharacterAt(games, "g1", "p1")
                       EXCEPT !.inventory = CharacterAt(games', "g1", "p1").inventory]
             /\ CharacterAt(games', "g1", "p2") = CharacterAt(games, "g1", "p2")
             /\ games'["g1"].monsters = games["g1"].monsters
     /\ \A targetType \in {"player", "monster"} :
          \A targetId \in (IF targetType = "player" THEN DOMAIN games["g1"].players
                                                     ELSE DOMAIN games["g1"].monsters) :
            Action("g1", "p1", ActionOf("castSpell", targetType, targetId, "Light"))
              => /\ last'.ok
                 /\ last'.msg.kind = "casts, nothing happens"
                 /\ LogOf(games', "g1") = Append(LogOf(games, "g1"), last'.msg)
                 /\ games'["g1"].players = games["g1"].players
                 /\ games'["g1"].monsters = games["g1"].monsters]_vars

\* a rope was used to no effect and left the inventory
C26_Witness ==
  /\ last.ok /\ last.op = "useItem" /\ last.note = "rope"
  /\ last.msg.kind = "uses, nothing happens"
  /\ InventoryAt(games, "g1", "p1") = <<>>

\* the inventory of a character; empty when the character or its inventory is
\* missing
Pack(c) == IF c.exists /\ c.inventory.k = "array" THEN c.inventory.v ELSE <<>>

\* C27: a giveItem of an item of the item rules to a player of the game
\* succeeds, leaves the inventory as it was with the item appended at its end
\* (the earlier entries in their places, one entry more, also when the item
\* is already there), and appends the line of the acquisition to the log; a
\* giveItem of an item that is not in the item rules fails and leaves the
\* registry as it was
C27_GiveAppends ==
  [][/\ GiveItem("g1", "p1", "rope")
          => /\ last'.ok
             /\ Pack(CharacterAt(games', "g1", "p1"))
                  = Append(Pack(CharacterAt(games, "g1", "p1")), "rope")
             /\ last'.msg.kind = "obtained"
             /\ LogOf(games', "g1") = Append(LogOf(games, "g1"), last'.msg)
     /\ GiveItem("g1", "p1", "orb") => (~last'.ok /\ games' = games)]_vars

\* a second rope was given and stands behind the first
C27_Witness ==
  /\ last.ok /\ last.op = "giveItem" /\ last.note = "rope"
  /\ Pack(CharacterAt(games, "g1", "p1")) = <<"rope", "rope">>

(***************************************************************************)
(* SpecRemake: a client creates its character, gains a rope and            *)
(* experience, and creates its character again, with a payload that names  *)
(* a class with a hit die or a class without one and a level               *)
(***************************************************************************)
Payloads == {Supplied("fighter", Undefined, Undefined), Supplied("bard", Num(3), Undefined)}

SpecRemake ==
  Init
    /\ [][\/ JoinGame("g1", "p1", "Rowan")
          \/ \E character \in Payloads : CreateCharacter("g1", "p1", character)
          \/ GiveItem("g1", "p1", "rope")
          \* experience is awarded to a character that has a level: without
          \* one it grows without a bound
          \/ /\ CharacterAt(games, "g1", "p1").exists
             /\ IsNum(CharacterAt(games, "g1", "p1").level)
             /\ AddExperience("g1", "p1", LevelThreshold)]_vars

\* after is before with the fields of sent merged in: a field that sent does
\* not have keeps its value, experience and level getting 0 and 1 when they
\* had none
Merged(before, sent, after) ==
  /\ after.exists
  /\ after.hp = (IF sent.hp = Undefined THEN before.hp ELSE sent.hp)
  /\ after.ac = (IF sent.ac = Undefined THEN before.ac ELSE sent.ac)
  /\ after.class = (IF sent.class = NoClass THEN before.class ELSE sent.class)
  /\ sent.status = NoStatus => after.status = before.status
  /\ sent.inventory = NoArr => after.inventory = before.inventory
  /\ after.experience = (IF sent.experience # Undefined THEN sent.experience
                         ELSE IF before.experience # Undefined THEN before.experience
                         ELSE Num(0))
  /\ after.level = (IF sent.level # Undefined THEN sent.level
                    ELSE IF before.level # Undefined THEN before.level
                    ELSE Num(1))

\* C28: a createCharacter leaves the character with the fields of the payload
\* (as createCharacter completed it: the hit points rolled for a class with a
\* hit die, the armour class) merged into the character that was there: the
\* inventory, the experience, the level and the status that the payload does
\* not name are what they were, and a character that had no experience or
\* level has experience 0 and level 1
C28_SetCharacterMerges ==
  [][\A character \in Payloads :
       CreateCharacter("g1", "p1", character)
         => /\ last'.ok
            /\ \E hpRoll \in HpRolls(character.class) :
                 Merged(CharacterOrEmpty(CharacterAt(games, "g1", "p1")),
                        Prepared(character, hpRoll),
                        CharacterAt(games', "g1", "p1"))]_vars

\* the character was created again after a rope and a second level were
\* gained, and has both
C28_Witness ==
  /\ last.ok /\ last.op = "createCharacter" /\ last.note = "fighter"
  /\ Len(LogOf(games, "g1")) = 4
  /\ LogOf(games, "g1")[3].kind = "has reached level"
  /\ CharacterAt(games, "g1", "p1").inventory = Arr(<<"rope">>)
  /\ CharacterAt(games, "g1", "p1").level = Num(2)

\* the damage of a hit by a monster of each type, read off its rule: count +
\* bonus .. count * sides + bonus for the first attack's notation, that of
\* "1d6" for the slime, which has no attack, and one d6 for the wisp, whose
\* notation does not parse
DamageRange ==
  [orc |-> 1..2, wolf |-> (2 + 1)..(2 * 2 + 1), slime |-> 1..6, wisp |-> 1..6]

\* C29: a monster attack that hits deals a damage within the range of the
\* notation of the first attack of the monster's rule, bonus included, within
\* 1..6 when the rule has no first attack or its notation does not parse; a
\* monster attack that misses deals none
C29_MonsterDamage ==
  [][(last'.ok /\ last'.op = "monsterAI" /\ last'.note = "attacked")
       => IF last'.res.hit
          THEN last'.res.damage \in DamageRange[games[last'.game].monsters[last'.who].type]
          ELSE last'.res.damage = 0]_vars

\* a wolf bit for the most its notation allows
C29_Witness ==
  /\ last.ok /\ last.op = "monsterAI" /\ last.note = "attacked" /\ last.res.hit
  /\ last.msg.a = "wolf"
  /\ last.res.damage = 5

(***************************************************************************)
(* The remaining client command, selectCampaign, and SpecGateway: every    *)
(* client command, with arguments that make it return and arguments that   *)
(* make it throw                                                           *)
(***************************************************************************)
\* controllers/index.js selectCampaign; getCampaign(id) is null unless the
\* campaigns directory has the file, here that of "test-campaign"
selectCampaign(R, gameId, campaignId) ==
  IF campaignId # "test-campaign" THEN Throw(R, "Campaign does not exist")
  ELSE ReturnLogged([createGame(R, gameId) EXCEPT ![gameId].campaign = campaignId],
                    gameId, NoResult, Msg("Campaign selected", campaignId, "", 0, 0))

\* socket.on('selectCampaign')
SelectCampaign(g, campaignId) ==
  /\ \E out \in {selectCampaign(games, g, campaignId)} :
       /\ WithinBounds(out.reg)
       /\ games' = out.reg
       /\ last' = Answer("selectCampaign", g, "", "", campaignId, out)
  /\ UNCHANGED <<monsterIntervals, timers, nextTimer, now, spawned, killed>>

SpecGateway ==
  Init
    /\ [][\/ JoinGame("g1", "p1", "Rowan")
          \/ CreateCharacter("g1", "p1", Supplied("fighter", Undefined, Undefined))
          \/ \E campaignId \in {"test-campaign", "lost"} : SelectCampaign("g1", campaignId)
          \/ \E monsterType \in {"orc", "yeti"} : SpawnMonster("g1", monsterType, 0)
          \/ \E itemId \in {"rope", "orb"} : GiveItem("g1", "p1", itemId)
          \/ UseItem("g1", "p1", "rope")
          \/ \E optionIndex \in {1, 3} :
               ChooseDialogueOption("g1", "p1", "test", "intro", "start", optionIndex)
          \/ \E type \in {"roll", "attack", "castSpell", "dance"}, targetId \in {"p1", "p2"} :
               Action("g1", "p1", ActionOf(type, "player", targetId, "Light"))]_vars

\* the events of kind event among the emissions s
Sent(s, event) == {i \in 1..Len(s) : s[i].event = event}

Removed == {spawned[r] : r \in killed \cap (1..Len(spawned))}

\* a call naming monster m of game g on behalf of player p fails with its
\* not-found error and leaves the registry as it is
NamingFails(g, m, p) ==
  \A d20 \in Drawn(20) :
    /\ LET out == handleAction(games, g, p, ActionOf("attack", "monster", m, ""),
                               Dice(d20, 1, <<>>))
       IN ~out.ok /\ out.error = "Target monster not found in this game" /\ out.reg = games
    /\ LET out == handleAction(games, g, p,
                               ActionOf("castSpell", "monster", m, "Magic Missile"),
                               Dice(d20, 1, <<1>>))
       IN ~out.ok /\ out.error = "Target not found" /\ out.reg = games
    /\ LET out == monsterAttack(games, g, m, p, d20, <<1>>)
       IN ~out.ok /\ out.error = "Monster not found" /\ out.reg = games

\* C31: once a monster was removed from its game, and for as long as no
\* other monster is in the game under its identifier, an attack, a spell and
\* a monster attack naming it fail with a not-found error and change nothing;
\* a firing of its task changes no game, in whatever order attacks, spells,
\* spawns and firings come, and no firing that attacked a player was a firing
\* of the task of a removed monster
C31_RemovedInert ==
  /\ [](\A x \in Removed :
          x.instanceId \notin DOMAIN games[x.game].monsters
            => \A p \in DOMAIN games[x.game].players :
                 NamingFails(x.game, x.instanceId, p))
  /\ [][\A h \in killed :
          /\ (h \in DOMAIN timers /\ Tick(h)) => games' = games
          /\ (last'.op = "monsterAI" /\ last'.note = "attacked") => last'.arg # h]_vars

\* an attack naming a monster that was killed failed while the task of that
\* monster was still registered
C31_Witness ==
  /\ last.op = "attack" /\ ~last.ok
  /\ last.error = "Target monster not found in this game"
  /\ killed \cap DOMAIN timers # {}
  /\ \E x \in Removed : x.instanceId \notin DOMAIN games[x.game].monsters

\* C32: the player a firing of a monster's task attacks has, at that moment, a
\* character whose hit points are > 0 or undefined and whose status is not
\* "unconscious"; a firing leaves the character of a player who is
\* unconscious or at hit points <= 0 as it is
C32_EligibleTargets ==
  [][last'.op = "monsterAI" =>
       /\ last'.note = "attacked" =>
            LET c == CharacterAt(games, last'.game, last'.target) IN
              /\ c.exists
              /\ c.hp = Undefined \/ (IsNum(c.hp) /\ c.hp.v > 0)
              /\ c.status # "unconscious"
       /\ \A g \in GameIds, p \in PlayerIds :
            (Unconscious(CharacterAt(games, g, p)) \/ Down(CharacterAt(games, g, p)))
              => CharacterAt(games', g, p) = CharacterAt(games, g, p)]_vars

\* a firing hit the one player with a character while the other player of the
\* game had none, and left the player it hit unconscious
C32_Witness ==
  /\ last.op = "monsterAI" /\ last.note = "attacked" /\ last.res.hit
  /\ last.target = "p2"
  /\ "p1" \in DOMAIN games[last.game].players
  /\ ~CharacterAt(games, last.game, "p1").exists
  /\ Unconscious(CharacterAt(games, last.game, "p2"))

\* C33: a player has a character only from a createCharacter on: a step in
\* which a player without a character comes to have one is a createCharacter
C33_NilUntilCreated ==
  [][\A g \in GameIds, p \in PlayerIds :
       (CharacterAt(games', g, p).exists /\ ~CharacterAt(games, g, p).exists)
         => last'.op = "createCharacter"]_vars

\* C34: every character has an integer experience >= 0 and an integer level
\* >= 1 with experience < level * 1000, however it came into existence, and
\* no step lowers a character's level
C34_LevelInvariant ==
  /\ [](\A g \in GameIds, p \in PlayerIds :
          LET c == CharacterAt(games, g, p) IN
            c.exists =>
              /\ IsNum(c.experience) /\ c.experience.v >= 0
              /\ IsNum(c.level) /\ c.level.v >= 1
              /\ c.experience.v < c.level.v * LevelThreshold)
  /\ [][\A g \in GameIds, p \in PlayerIds :
          (CharacterAt(games, g, p).exists /\ IsNum(CharacterAt(games, g, p).level))
            => /\ IsNum(CharacterAt(games', g, p).level)
               /\ CharacterAt(games', g, p).level.v >= CharacterAt(games, g, p).level.v]_vars

\* the option that the chooseDialogueOption reported by o chose (the files
\* have one conversation each)
OptionOf(o) == dialogues[o.note].dialogues[1].nodes[o.target].options[o.arg + 1]

\* the experience a character was awarded in all: what it has and what its
\* level-ups consumed
TotalExperience(c) ==
  IF ~c.exists THEN 0
  ELSE (IF Truthy(c.experience) THEN c.experience.v ELSE 0)
         + (IF IsNum(c.level) THEN Thresholds(1, c.level.v) ELSE 0)

\* C35: a chooseDialogueOption that succeeds on an option with an experience
\* reward x leaves the player's character with x more experience, level-ups
\* counted in; it appends each rewarded item once to the inventory, in order;
\* a "gained XP" or "received item" line is appended only with that change
C35_RewardsAsLogged ==
  [][(last'.op = "chooseDialogueOption" /\ last'.ok) =>
       LET reward == OptionOf(last').reward
           before == CharacterAt(games, last'.game, last'.who)
           after == CharacterAt(games', last'.game, last'.who)
           old == LogOf(games, last'.game)
           new == LogOf(games', last'.game)
       IN /\ (reward.present /\ reward.xp # 0)
               => after.exists /\ TotalExperience(after) = TotalExperience(before) + reward.xp
          /\ (reward.present /\ reward.hasItems)
               => after.exists /\ Pack(after) = Pack(before) \o reward.items
          /\ \A i \in (Len(old) + 1)..Len(new) :
               /\ new[i].kind = "gained XP"
                    => /\ after.exists
                       /\ TotalExperience(after) = TotalExperience(before) + new[i].n
               /\ new[i].kind = "received item"
                    => /\ after.exists
                       /\ \E k \in (Len(Pack(before)) + 1)..Len(Pack(after)) :
                            Pack(after)[k] = new[i].b]_vars

\* the call names a file, a conversation, a node or an option that is not there
NotThere(dialogueId, conversationId, nodeId, optionIndex) ==
  \/ dialogueId \notin DOMAIN dialogues
  \/ FindConversation(getDialogue(dialogueId), conversationId) = 0
  \/ LET conv == getDialogue(dialogueId).dialogues[
                   FindConversation(getDialogue(dialogueId), conversationId)]
     IN \/ nodeId \notin DOMAIN conv.nodes
        \/ optionIndex \notin 0..(Len(conv.nodes[nodeId].options) - 1)

\* C36: a chooseDialogueOption with an option index outside 0 .. number of
\* options - 1, or with a file, a conversation or a node that is not there,
\* fails and leaves the registry as it was: no experience, no item, no line
C36_ValidatesBeforeReward ==
  [][\A dialogueId \in {"test", "none"}, conversationId \in {"intro", "outro"},
        nodeId \in {"start", "B", "nowhere"}, optionIndex \in -1..3 :
       (/\ NotThere(dialogueId, conversationId, nodeId, optionIndex)
        /\ ChooseDialogueOption("g1", "p1", dialogueId, conversationId, nodeId,
                                optionIndex))
         => /\ ~last'.ok
            /\ last'.error \in {"Dialogue file not found", "Dialogue not found in file",
                                "Node not found in dialogue", "Option index is invalid"}
            /\ games' = games]_vars

\* a choice with an index that the node does not have was refused to a
\* player who holds a character that an earlier reward made
C36_Witness ==
  /\ last.op = "chooseDialogueOption" /\ ~last.ok
  /\ last.error = "Option index is invalid"
  /\ CharacterAt(games, "g1", "p1").exists
  /\ LogOf(games, "g1") # <<>>

(***************************************************************************)
(* SpecActions: Rowan, in a game with Mira and an orc, and a client that   *)
(* is in no game send actions of every kind handleAction tells apart:      *)
(* rolls, attacks on players and monsters, spells with and without a name, *)
(* and kinds it does not know, at targets that are there and that are not  *)
(***************************************************************************)
SpecActions ==
  /\ \/ games = joinGame(joinGame(EmptyMap, "g1", "p1", "Rowan").reg, "g1", "p2", "Mira").reg
     \/ games = createCharacter(joinGame(EmptyMap, "g1", "p1", "Rowan").reg, "g1", "p2",
                                Supplied("fighter", Undefined, Undefined), 1).reg
  /\ monsterIntervals = EmptyMap
  /\ timers = EmptyMap
  /\ nextTimer = 0
  /\ now = 0
  /\ spawned = <<>>
  /\ killed = {}
  /\ last = Outcome("init", "", "", "", "", Return(EmptyMap, NoResult, NoMsg))
  /\ [][\/ SpawnMonster("g1", "orc", 0)
        \/ \E g \in GameIds, p \in {"p1", "p3"} :
             Action(g, p, ActionOf("roll", "", "", ""))
        \/ \E targetType \in {"player", "monster"}, targetId \in {"p2", "p3"} \cup MonsterIds :
             Action("g1", "p1", ActionOf("attack", targetType, targetId, ""))
        \/ \E spellName \in {"", "Magic Missile", "Cure Light Wounds", "Wish"},
              targetType \in {"player", "monster"}, targetId \in {"p2"} \cup MonsterIds :
             Action("g1", "p1", ActionOf("castSpell", targetType, targetId, spellName))
        \/ Action("g1", "p1", ActionOf("dance", "", "", ""))]_vars

\* C37: a handleAction that returns (a roll, an attack on a player or on a
\* monster, a spell, a spell without a name, an unknown kind) appends one
\* line to the log of its game, the message it returns, and leaves every
\* other log as it was; a handleAction that fails leaves every log as it was
C37_OneLinePerAction ==
  [][last'.op \in {"roll", "attack", "castSpell", "dance"}
       => IF last'.ok
          THEN /\ last'.msg # NoMsg
               /\ LogOf(games', last'.game) = Append(LogOf(games, last'.game), last'.msg)
               /\ \A g \in GameIds \ {last'.game} : LogOf(games', g) = LogOf(games, g)
          ELSE \A g \in GameIds : LogOf(games', g) = LogOf(games, g)]_vars

\* an attack killed the orc, and its line, the fourth of the log, is the
\* message it returned
C37_Witness ==
  /\ last.ok /\ last.op = "attack" /\ last.note = "monster" /\ last.res.hit
  /\ killed # {}
  /\ Len(LogOf(games, "g1")) = 4
  /\ LogOf(games, "g1")[4] = last.msg

(***************************************************************************)
(* SpecSiege: in the game that Rowan joined orcs (armour class 13) and     *)
(* slimes (armour class 10 by default) are spawned, and attackMonster is   *)
(* called on them again and again with every d20 value; the dice are fair: *)
(* a 20 is rolled again and again                                          *)
(***************************************************************************)
InitSiege ==
  /\ games = joinGame(EmptyMap, "g1", "p1", "Rowan").reg
  /\ monsterIntervals = EmptyMap
  /\ timers = EmptyMap
  /\ nextTimer = 0
  /\ now = 0
  /\ spawned = <<>>
  /\ killed = {}
  /\ last = Outcome("init", "", "", "", "", Return(EmptyMap, NoResult, NoMsg))

NextSiege ==
  \/ \E monsterType \in {"orc", "slime"} : SpawnMonster("g1", monsterType, 0)
  \/ \E m \in MonsterIds : Strike("g1", "p1", "monster", m)

\* an attackMonster on monster m that rolls a 20
StrikeTwenty(m) == Strike("g1", "p1", "monster", m) /\ last'.ok /\ last'.res.roll = 20

SpecSiege ==
  InitSiege /\ [][NextSiege]_vars /\ WF_vars(StrikeTwenty(InstanceId(0, 0)))

\* C38: under repeated attacks with fair dice every monster object that is
\* in a game is eventually in it no more; an attack takes a monster object
\* out of its game only with its hit points at <= 0; and a monster object
\* that is out of its game's monsters is never in them again
C38_AttacksKill ==
  /\ \A r \in 1..MaxSpawns : (r \in LiveRefs(games)) ~> (r \notin LiveRefs(games))
  /\ [][\A r \in 1..Len(spawned) :
          /\ (r \in LiveRefs(games) /\ r \notin LiveRefs(games')
                /\ last'.op = "attackMonster")
               => /\ r \in killed'
                  /\ IsNum(last'.res.remaining) /\ last'.res.remaining.v <= 0
          /\ r \notin LiveRefs(games) => r \notin LiveRefs(games')]_vars

\* two monsters were killed one after the other, the second by a blow that
\* left it at hit points below 0
C38_Witness ==
  /\ last.ok /\ last.op = "attackMonster" /\ last.res.hit
  /\ IsNum(last.res.remaining) /\ last.res.remaining.v < 0
  /\ killed = {1, 2}
  /\ LiveRefs(games) = {}

(***************************************************************************)
(* SpecLoop: the level-up loop of addExperience, one iteration a step, on  *)
(* a character whose level createCharacter took from its payload (0 and    *)
(* below included) and an award of any sign                                *)
(***************************************************************************)
\* the levels and the awards the loop is started with
LoopLevels == -2..3
LoopAwards == {-1500, 0, 999, 1000, 2500, 6000}

\* a level that stays as it is
LevelStays(experience, level) ==
  [experience |-> experience - level * LevelThreshold, level |-> level]

\* the body of the loop: experience -= level * 1000; level += 1
LevelUp(experience, level) ==
  [experience |-> experience - level * LevelThreshold, level |-> level + 1]

\* player.character.experience = (experience || 0) + xp, before the loop
InitLoop ==
  /\ games = EmptyMap
  /\ monsterIntervals = EmptyMap
  /\ timers = EmptyMap
  /\ nextTimer = 0
  /\ now = 0
  /\ spawned = <<>>
  /\ killed = {}
  /\ \E level \in LoopLevels, experience \in {0, 500}, xp \in LoopAwards :
       last = [Outcome("addExperience", "", "", "", "",
                       Return(EmptyMap,
                              [experience |-> experience + xp, level |-> level,
                               from |-> level, given |-> experience + xp] @@ NoResult,
                              NoMsg))
                 EXCEPT !.arg = xp]

\* while (experience >= level * 1000) { ... }: one iteration
LoopIteration ==
  /\ last.op = "addExperience"
  /\ last.res.experience >= last.res.level * LevelThreshold
  /\ last' = [last EXCEPT !.res = LevelUp(last.res.experience, last.res.level) @@ last.res]
  /\ UNCHANGED <<games, monsterIntervals, timers, nextTimer, now, spawned, killed>>

\* the condition is false: return player
LoopReturn ==
  /\ last.op = "addExperience"
  /\ ~(last.res.experience >= last.res.level * LevelThreshold)
  /\ last' = [last EXCEPT !.op = "returned"]
  /\ UNCHANGED <<games, monsterIntervals, timers, nextTimer, now, spawned, killed>>

SpecLoop ==
  InitLoop /\ [][LoopIteration \/ LoopReturn]_vars
           /\ WF_vars(LoopIteration) /\ WF_vars(LoopReturn)

Packed ==
  {Supplied("fighter", Undefined, Undefined),
   [Supplied("fighter", Undefined, Undefined) EXCEPT !.inventory = Arr(<<"orb">>)]}

SpecPack ==
  Init
    /\ [][\/ JoinGame("g1", "p1", "Rowan")
          \/ \E character \in Packed : CreateCharacter("g1", "p1", character)
          \/ \E itemId \in {"rope", "orb"} : GiveItem("g1", "p1", itemId)
          \/ \E itemId \in {"rope", "healingPotion", "orb"} : UseItem("g1", "p1", itemId)
          \/ ChooseDialogueOption("g1", "p1", "test", "intro", "start", 1)]_vars

\* C40: every item identifier in an inventory is a key of the item rules
C40_HeldItemsKnown ==
  \A g \in GameIds, p \in PlayerIds :
    \A i \in 1..Len(Pack(CharacterAt(games, g, p))) :
      Pack(CharacterAt(games, g, p))[i] \in DOMAIN itemRules
====
